---- MODULE Spec2Model ----
(***************************************************************************)
(* A model of the IIIF Page Viewer's data service (IIIFDataService):       *)
(* fetchPageViewerData and the functions it calls, the image-service       *)
(* probe (processIIIFImageUrl) and the XYWH selector parser (parseXYWH).   *)
(*                                                                         *)
(* JSON objects are records whose DOMAIN is the set of keys present, so a  *)
(* missing key (JavaScript undefined) is a key outside the DOMAIN.         *)
(* JavaScript strings that the code takes apart (selector values) are      *)
(* sequences of one-character strings.  Image identifiers and image URLs   *)
(* are sequences of path segments: <<"img1">> is an identifier as it       *)
(* stands in a canvas, <<base, "full", <<w, h>>, "0", "default.jpg">> is   *)
(* the template `${baseUrl}/full/${w},${h}/0/default.jpg`.                 *)
(***************************************************************************)
EXTENDS Integers, Sequences, FiniteSets, TLC

----------------------------------------------------------------------------
(* Bounds of the model *)

\* longest canvas collection of a manifest
MaxCanvases == 2
\* longest items list of a page-with-target object
MaxItems == 2
\* longest items list of an annotation page
MaxPageItems == 2

----------------------------------------------------------------------------
(* JSON helpers *)

Has(o, f) == f \in DOMAIN o

\* o with key f set to v when present, o itself when the key is to be absent
With(o, f, v, present) == IF present THEN (f :> v) @@ o ELSE o

\* the value of a string-valued key, "undefined" standing for undefined
UNDEF == "undefined"
StrOf(o, f) == IF Has(o, f) THEN o[f] ELSE UNDEF
TruthyStr(s) == s # UNDEF /\ s # ""

\* a number-valued key is truthy when present and not 0
TruthyNum(o, f) == Has(o, f) /\ o[f] # 0

\* undefined for an image identifier
NoUrl == <<>>

----------------------------------------------------------------------------
(* JavaScript strings as character sequences, for parseXYWH *)

Digit == {"0", "1", "2", "3", "4", "5", "6", "7", "8", "9"}
DigitVal(c) ==
    CASE c = "0" -> 0 [] c = "1" -> 1 [] c = "2" -> 2 [] c = "3" -> 3
      [] c = "4" -> 4 [] c = "5" -> 5 [] c = "6" -> 6 [] c = "7" -> 7
      [] c = "8" -> 8 [] c = "9" -> 9
DigitChr(d) == <<"0", "1", "2", "3", "4", "5", "6", "7", "8", "9">>[d + 1]

\* String(n) for a natural number n
RECURSIVE NumToStr(_)
NumToStr(n) == IF n < 10 THEN <<DigitChr(n)>>
               ELSE NumToStr(n \div 10) \o <<DigitChr(n % 10)>>

\* a JavaScript number: a finite value or NaN
Num(v) == [nan |-> FALSE, v |-> v]
NaN == [nan |-> TRUE, v |-> 0]

RECURSIVE DecVal(_)
DecVal(s) == IF s = <<>> THEN 0
             ELSE 10 * DecVal(SubSeq(s, 1, Len(s) - 1)) + DigitVal(s[Len(s)])

\* the value of a character as a digit, 36 for a character that is no digit
\* of any radix up to 16
DigitOf(c) ==
    CASE c \in Digit -> DigitVal(c)
      [] c \in {"a", "A"} -> 10 [] c \in {"b", "B"} -> 11 [] c \in {"c", "C"} -> 12
      [] c \in {"d", "D"} -> 13 [] c \in {"e", "E"} -> 14 [] c \in {"f", "F"} -> 15
      [] OTHER -> 36

\* the digits after a 0x, 0o or 0b prefix: at least one, all below the radix
IsRadix(s, radix) == s # <<>> /\ \A i \in 1..Len(s) : DigitOf(s[i]) < radix
RECURSIVE RadixVal(_, _)
RadixVal(s, radix) ==
    IF s = <<>> THEN 0
    ELSE radix * RadixVal(SubSeq(s, 1, Len(s) - 1), radix) + DigitOf(s[Len(s)])

\* the radix a two-character prefix announces, 0 when it announces none
RadixOf(s) ==
    IF Len(s) < 2 \/ s[1] # "0" THEN 0
    ELSE CASE s[2] \in {"x", "X"} -> 16
           [] s[2] \in {"o", "O"} -> 8
           [] s[2] \in {"b", "B"} -> 2
           [] OTHER -> 0

Infinity == [nan |-> FALSE, inf |-> TRUE]

\* Number(s) on strings without whitespace, sign, point or exponent, for
\* values below 2^53: the empty string is 0, a digit string its decimal
\* value, 0x, 0o and 0b (in either case) prefix a hexadecimal, octal and
\* binary literal, "Infinity" is Infinity, anything else NaN
Number(s) ==
    IF \A i \in 1..Len(s) : s[i] \in Digit THEN Num(DecVal(s))
    ELSE IF RadixOf(s) # 0 /\ IsRadix(SubSeq(s, 3, Len(s)), RadixOf(s))
         THEN Num(RadixVal(SubSeq(s, 3, Len(s)), RadixOf(s)))
    ELSE IF s = <<"I", "n", "f", "i", "n", "i", "t", "y">> THEN Infinity
    ELSE NaN

\* the first index at which pat occurs in s, 0 when it does not
IndexOf(s, pat) ==
    LET hits == {i \in 1..(Len(s) - Len(pat) + 1) :
                    SubSeq(s, i, i + Len(pat) - 1) = pat}
    IN IF hits = {} THEN 0 ELSE CHOOSE i \in hits : \A j \in hits : i <= j

\* String.prototype.replace(pat, rep) with a string pattern: the first
\* occurrence only
Replace(s, pat, rep) ==
    LET i == IndexOf(s, pat)
    IN IF i = 0 THEN s
       ELSE SubSeq(s, 1, i - 1) \o rep \o SubSeq(s, i + Len(pat), Len(s))

\* String.prototype.split(sep) for a one-character separator
RECURSIVE Split(_, _)
Split(s, sep) ==
    LET i == IndexOf(s, <<sep>>)
    IN IF i = 0 THEN <<s>>
       ELSE <<SubSeq(s, 1, i - 1)>> \o Split(SubSeq(s, i + 1, Len(s)), sep)

PixelPrefix == <<"x", "y", "w", "h", "=", "p", "i", "x", "e", "l", ":">>
PlainPrefix == <<"x", "y", "w", "h", "=">>

\* xywh[i] of the mapped array: undefined past its end
At(toks, i) == IF i <= Len(toks) THEN Number(toks[i]) ELSE [undef |-> TRUE]

parseXYWH(target) ==
    LET toks == Split(Replace(target, PixelPrefix, <<>>), ",")
    IN [x |-> At(toks, 1), y |-> At(toks, 2), w |-> At(toks, 3), h |-> At(toks, 4)]

----------------------------------------------------------------------------
(* The documents of the model.  URLs are sequences of chunks: an identifier *)
(* as it stands in a document is a one-chunk sequence.                      *)

CanvasIds == {"c1", "c2"}

\* the image of the canvas at v3 items[0].items[0].body.id, at v2
\* images[0].resource["@id"], at v2 images[0].resource.id, or nowhere
ImagePart(ver, img) ==
    CASE ver = "v3" ->
           [type |-> "Canvas",
            items |-> <<[type |-> "AnnotationPage",
                         items |-> <<[type |-> "Annotation", body |-> [id |-> img]]>>]>>]
      [] ver = "v2" ->
           [images |-> <<[resource |-> ("@id" :> img)]>>]
      [] ver = "v2id" ->
           [images |-> <<[resource |-> [id |-> img]]>>]
      [] ver = "noimg" ->
           [type |-> "Canvas"]

\* a canvas object: its image, its identifier under key idkey ("none": no
\* identifier) and the keys of dims, a record of the dimensions it declares
MkCanvas(ver, idkey, id, dims, img) ==
    dims @@ With(ImagePart(ver, img), idkey, id, idkey # "none")

Versions == {"v3", "v2", "v2id"}
FullDims == [width |-> 1000, height |-> 800]
SmallDims == [width |-> 600, height |-> 400]
HalfDims == [width |-> 500, height |-> 400]
DimParts == {FullDims, [height |-> 800], [width |-> 1000],
             [width |-> 0, height |-> 800], [width |-> 600, height |-> 0]}
IdKeyOf(ver) == IF ver = "v3" THEN "id" ELSE "@id"

\* canvases handed to resolve directly or served at a canvas URL
CanvasDocs ==
    {MkCanvas(ver, IdKeyOf(ver), "c1", d, <<"img1">>) : ver \in Versions, d \in DimParts}
    \cup {MkCanvas("v3", k, "c2", SmallDims, <<"img2">>) : k \in {"id", "@id", "none"}}
    \cup {MkCanvas("v2", "@id", "c2", SmallDims, <<"img2">>),
          MkCanvas("noimg", "id", "c1", FullDims, NoUrl),
          MkCanvas("v3", "id", "c1", HalfDims, <<"img1">>)}

\* the canvas at position pos of a manifest: its dimensions and image tell
\* the positions apart, and the canvas with identifier "c3" lacks its width
PosDims(id, pos) ==
    IF id = "c3" THEN [height |-> 800 - 100 * pos]
    ELSE [width |-> 1000 - 100 * pos, height |-> 800 - 100 * pos]
ManifestCanvas(ver, id, pos) ==
    MkCanvas(ver, IdKeyOf(ver), id, PosDims(id, pos), <<"mimg", pos>>)

ManifestIds == CanvasIds \cup {"c3"}
IdLists == UNION {[1..n -> ManifestIds] : n \in 0..MaxCanvases}

ManifestV3(ids) ==
    [type |-> "Manifest",
     items |-> [i \in 1..Len(ids) |-> ManifestCanvas("v3", ids[i], i)]]
ManifestV2(ids) ==
    ("@type" :> "sc:Manifest") @@
    [sequences |-> <<[canvases |-> [i \in 1..Len(ids) |-> ManifestCanvas("v2", ids[i], i)]]>>]

ManifestDocs ==
    {ManifestV3(ids) : ids \in IdLists} \cup {ManifestV2(ids) : ids \in IdLists}
    \cup {[type |-> "Manifest"]}

\* a JavaScript value that may be a string or an object: a string is boxed
JStr(s) == [str |-> s]
JUndef == [undef |-> TRUE]

Sel1 == PixelPrefix \o <<"1", ",", "2", ",", "3", ",", "4">>
Sel2 == PlainPrefix \o <<"5", ",", "6", ",", "7", ",", "8">>

\* annotation bodies, embedded in an annotation page or served at an
\* annotation's own URL
AnnoDocs ==
    {[id |-> "a1", target |-> [source |-> "c1", selector |-> [value |-> Sel1]],
      body |-> [value |-> "Hello"]],
     [id |-> "a2", target |-> JStr(Sel2)],
     [body |-> [value |-> "World"]]}

AnnotationPageDocs ==
    {[type |-> "AnnotationPage", items |-> its] :
        its \in UNION {[1..n -> AnnoDocs] : n \in 0..MaxPageItems}}
    \cup {[type |-> "AnnotationPage"]}

\* the references of a page-with-target object to its annotations
AnnoRefs ==
    {[id |-> <<"https://h/a1">>, target |-> JStr(<<"c", "1">>)],
     [id |-> <<"https://h/a2">>]}

\* a page whose first annotation has the empty string for its target
PageWithEmptyItemTarget ==
    [target |-> <<"https://h/target">>,
     items |-> <<[id |-> <<"https://h/a3">>, target |-> JStr(<<>>)]>>]

PageDocs ==
    {With([items |-> its], "target", <<"https://h/target">>, t) :
        its \in UNION {[1..n -> AnnoRefs] : n \in 0..MaxItems}, t \in BOOLEAN}
    \cup {PageWithEmptyItemTarget}

----------------------------------------------------------------------------
(* The image-service resolver *)

\* image-service descriptions (info.json): identified by the v3 type tag, by
\* an Image API @context, or only by width, height and @id; with the base
\* identifier under @id, under id, or missing
ImageApi2 == "http://iiif.io/api/image/2/context.json"
ImageApi3 == "http://iiif.io/api/image/3/context.json"
Presentation3 == "http://iiif.io/api/presentation/3/context.json"

\* String.prototype.includes on the @context strings of the model
IncludesImage2(ctx) == ctx = ImageApi2
IncludesImage3(ctx) == ctx = ImageApi3

Native == [width |-> 1000, height |-> 800]
SizesList == <<[width |-> 100, height |-> 80], [width |-> 1000, height |-> 800]>>
\* a sizes list out of order, and one whose entries are all small
UnsortedSizes == <<[width |-> 1000, height |-> 800], [width |-> 600, height |-> 480]>>
SmallSizes == <<[width |-> 100, height |-> 80], [width |-> 200, height |-> 160]>>
ProfileList == <<[str |-> "http://iiif.io/api/image/2/level1.json"],
                 [maxWidth |-> 400, maxHeight |-> 400]>>

InfoDocs ==
    {Native @@ [type |-> "ImageService3", id |-> "svc"],
     Native @@ [type |-> "ImageService3"],
     Native @@ [type |-> "ImageService3", id |-> "svc", sizes |-> SizesList],
     Native @@ [type |-> "ImageService3", id |-> "svc", sizes |-> <<>>,
                profile |-> ProfileList],
     Native @@ [type |-> "ImageService3", id |-> "svc", sizes |-> UnsortedSizes],
     Native @@ [type |-> "ImageService3", id |-> "svc", sizes |-> SmallSizes],
     Native @@ [type |-> "ImageService3", id |-> "svc", sizes |-> SizesList,
                profile |-> ProfileList],
     Native @@ ("@type" :> "ImageService3") @@ ("@id" :> "svc"),
     Native @@ ("@context" :> ImageApi2) @@ ("@id" :> "svc") @@ [profile |-> ProfileList],
     Native @@ ("@context" :> ImageApi3) @@ [id |-> "svc"],
     Native @@ ("@context" :> ImageApi2),
     Native @@ ("@id" :> "svc"),
     [width |-> 500, height |-> 500] @@ ("@id" :> "svc")}

\* JSON documents that are no image service
OtherDocs ==
    {Native @@ [id |-> "svc"],
     ("@context" :> Presentation3) @@ [type |-> "Canvas", id |-> "c1"]}

\* a variant without the last-resort test of width, height and @id
isIIIFImageInfoTagged(data) ==
    \/ StrOf(data, "type") = "ImageService3"
    \/ StrOf(data, "@type") = "ImageService3"
    \/ /\ TruthyStr(StrOf(data, "@context"))
       /\ \/ IncludesImage2(data["@context"])
          \/ IncludesImage3(data["@context"])

\* a variant whose last-resort test takes either identifier key
isIIIFImageInfoEitherId(data) ==
    \/ StrOf(data, "type") = "ImageService3"
    \/ StrOf(data, "@type") = "ImageService3"
    \/ /\ TruthyStr(StrOf(data, "@context"))
       /\ \/ IncludesImage2(data["@context"])
          \/ IncludesImage3(data["@context"])
    \/ /\ TruthyNum(data, "width")
       /\ TruthyNum(data, "height")
       /\ TruthyStr(StrOf(data, "@id")) \/ TruthyStr(StrOf(data, "id"))

isIIIFImageInfo(data) ==
    \/ StrOf(data, "type") = "ImageService3"
    \/ StrOf(data, "@type") = "ImageService3"
    \/ /\ TruthyStr(StrOf(data, "@context"))
       /\ \/ IncludesImage2(data["@context"])
          \/ IncludesImage3(data["@context"])
    \/ /\ TruthyNum(data, "width")
       /\ TruthyNum(data, "height")
       /\ TruthyStr(StrOf(data, "@id"))

Min(a, b) == IF a <= b THEN a ELSE b

\* the first entry of the profile that is an object with maxWidth and
\* maxHeight, as [width, height]; the empty sequence stands for null
RECURSIVE FirstMax(_)
FirstMax(profile) ==
    IF profile = <<>> THEN <<>>
    ELSE LET p == Head(profile)
         IN IF ~Has(p, "str") /\ TruthyNum(p, "maxWidth") /\ TruthyNum(p, "maxHeight")
            THEN <<[width |-> p.maxWidth, height |-> p.maxHeight]>>
            ELSE FirstMax(Tail(profile))

getMaxAllowedSize(infoData) ==
    IF ~Has(infoData, "profile") THEN <<>> ELSE FirstMax(infoData.profile)

\* a variant that takes the last entry that meets the target
RECURSIVE FindSizeLast(_, _, _)
FindSizeLast(sizes, targetWidth, targetHeight) ==
    IF sizes = <<>> THEN <<>>
    ELSE IF sizes[Len(sizes)].width >= targetWidth /\ sizes[Len(sizes)].height >= targetHeight
         THEN <<sizes[Len(sizes)]>>
         ELSE FindSizeLast(SubSeq(sizes, 1, Len(sizes) - 1), targetWidth, targetHeight)

\* Array.prototype.find: the first entry that meets the target, as a
\* one-element sequence, or the empty sequence
RECURSIVE FindSize(_, _, _)
FindSize(sizes, targetWidth, targetHeight) ==
    IF sizes = <<>> THEN <<>>
    ELSE IF Head(sizes).width >= targetWidth /\ Head(sizes).height >= targetHeight
         THEN <<Head(sizes)>>
         ELSE FindSize(Tail(sizes), targetWidth, targetHeight)

\* the size parameter `${width},${height}` as the pair <<width, height>>
getBestSizeParameter(infoData, targetWidth, targetHeight) ==
    LET found == IF Has(infoData, "sizes")
                 THEN FindSize(infoData.sizes, targetWidth, targetHeight)
                 ELSE <<>>
        availableSize ==
            IF found # <<>> THEN found
            ELSE IF Has(infoData, "sizes") /\ infoData.sizes # <<>>
                 THEN <<infoData.sizes[Len(infoData.sizes)]>>
                 ELSE <<>>
        maxSize == getMaxAllowedSize(infoData)
    IN IF availableSize # <<>>
       THEN <<availableSize[1].width, availableSize[1].height>>
       ELSE IF maxSize # <<>>
            THEN <<Min(targetWidth, maxSize[1].width), Min(targetHeight, maxSize[1].height)>>
            ELSE <<targetWidth, targetHeight>>

\* infoData["@id"] || infoData.id
BaseUrlOf(infoData) ==
    IF TruthyStr(StrOf(infoData, "@id")) THEN infoData["@id"] ELSE StrOf(infoData, "id")

\* JavaScript numbers are IEEE 754 doubles.  imageWidth / imageHeight is the
\* quotient rounded to 53 significant bits, so that the product and the
\* quotient taken with it can fall short of, or exceed, the integer the exact
\* aspect ratio would give.  What follows computes, in integers, what the
\* doubles come to, for dimensions below 2^20.

RECURSIVE Pow2(_)
Pow2(n) == IF n = 0 THEN 1 ELSE 2 * Pow2(n - 1)

\* 2^s modulo h
RECURSIVE Pow2Mod(_, _)
Pow2Mod(s, h) == IF s = 0 THEN 1 % h ELSE (2 * Pow2Mod(s - 1, h)) % h

\* floor(log2(n / d))
RECURSIVE ILog2(_, _)
ILog2(n, d) ==
    IF n >= 2 * d THEN 1 + ILog2(n, 2 * d)
    ELSE IF n < d THEN ILog2(2 * n, d) - 1
    ELSE 0

\* the k with 2^k <= n < 2^(k+1), and the k with 2^k < n <= 2^(k+1)
BinadeOf(n) == ILog2(n, 1)
BinadeBelow(n) == IF Pow2(BinadeOf(n)) = n THEN BinadeOf(n) - 1 ELSE BinadeOf(n)

\* the sign of a * 2^p - b * 2^s
CmpScaled(a, p, b, s) ==
    LET m == Min(p, s)
        x == a * Pow2(p - m)
        y == b * Pow2(s - m)
    IN IF x > y THEN 1 ELSE IF x < y THEN -1 ELSE 0

\* the aspect ratio as a double is (w * 2^s + c) / (h * 2^s): s scales the
\* quotient to 53 bits, c is what rounding to nearest adds to the numerator
AspectScale(w, h) == 52 - ILog2(w, h)
AspectError(w, h) ==
    LET r == ((w % h) * Pow2Mod(AspectScale(w, h), h)) % h
    IN IF 2 * r < h THEN 0 - r ELSE h - r

\* Math.floor(t * aspectRatio): the exact floor, but one less when the exact
\* product is an integer, the ratio was rounded down, and the product with
\* it rounds to the double below that integer
MulFloor(t, w, h) ==
    LET c == AspectError(w, h)
        n == (t * w) \div h
    IN IF (t * w) % h # 0 \/ c >= 0 THEN n
       ELSE IF CmpScaled(t * (0 - c), 53 - BinadeBelow(n), h, AspectScale(w, h)) <= 0 THEN n
       ELSE n - 1

\* t / aspectRatio against the integer n it is exactly, when it is one:
\* -1 when the double is below n, 1 when it is above, 0 when it is n
DivDrift(t, w, h) ==
    LET c == AspectError(w, h)
        n == (t * h) \div w
    IN IF c = 0 THEN 0
       ELSE IF c > 0
            THEN IF CmpScaled(n * c, 53 - BinadeBelow(n), w, AspectScale(w, h)) <= 0
                 THEN 0 ELSE -1
       ELSE IF CmpScaled(n * (0 - c), 53 - BinadeOf(n), w, AspectScale(w, h)) >= 0
            THEN 1 ELSE 0

\* Math.floor(t / aspectRatio)
DivFloor(t, w, h) ==
    IF (t * h) % w # 0 THEN (t * h) \div w
    ELSE IF DivDrift(t, w, h) < 0 THEN (t * h) \div w - 1
    ELSE (t * h) \div w

\* t / aspectRatio > limit
DivExceeds(t, w, h, limit) ==
    IF (t * h) % w # 0 THEN t * h > limit * w
    ELSE IF DivDrift(t, w, h) > 0 THEN (t * h) \div w >= limit
    ELSE (t * h) \div w > limit

\* a variant that recomputes the other dimension
TargetSizeSwapped(infoData, maxWidth, maxHeight) ==
    LET imageWidth == infoData.width
        imageHeight == infoData.height
        targetWidth == Min(maxWidth, imageWidth)
        targetHeight == Min(maxHeight, imageHeight)
    IN IF DivExceeds(targetWidth, imageWidth, imageHeight, targetHeight)
       THEN <<targetWidth, DivFloor(targetWidth, imageWidth, imageHeight)>>
       ELSE <<MulFloor(targetHeight, imageWidth, imageHeight), targetHeight>>

\* the target size, aspect ratio kept
TargetSize(infoData, maxWidth, maxHeight) ==
    LET imageWidth == infoData.width
        imageHeight == infoData.height
        targetWidth == Min(maxWidth, imageWidth)
        targetHeight == Min(maxHeight, imageHeight)
    IN IF DivExceeds(targetWidth, imageWidth, imageHeight, targetHeight)
       THEN <<MulFloor(targetHeight, imageWidth, imageHeight), targetHeight>>
       ELSE <<targetWidth, DivFloor(targetWidth, imageWidth, imageHeight)>>

\* a thrown error is [threw |-> TRUE], a returned URL [threw |-> FALSE, url |-> ..]
constructIIIFImageUrl(infoData, maxWidth, maxHeight) ==
    LET baseUrl == BaseUrlOf(infoData)
        t == TargetSize(infoData, maxWidth, maxHeight)
    IN IF ~TruthyStr(baseUrl) THEN [threw |-> TRUE]
       ELSE [threw |-> FALSE,
             url |-> <<baseUrl, "full", getBestSizeParameter(infoData, t[1], t[2]),
                       "0", "default.jpg">>]

\* the content types of the model that contain 'application/json' or
\* 'application/ld+json'; "none" is a response without the header
JsonTypes == {"application/json", "application/ld+json", "application/json;charset=utf-8"}
ContentTypes == JsonTypes \cup {"image/jpeg", "none"}

\* what a fetch can come to: the request fails (the promise rejects), or a
\* response arrives with a status, a content type and a body that parses as
\* JSON or does not
NetErr == [kind |-> "neterr"]
HttpFail == [kind |-> "http", ok |-> FALSE]
HttpOk(ctype, parses, data) ==
    [kind |-> "http", ok |-> TRUE, ctype |-> ctype, parses |-> parses, data |-> data]
NoJson(ctype) == HttpOk(ctype, FALSE, [none |-> TRUE])

ProbeResponses ==
    {NetErr, HttpFail}
    \cup {NoJson(ct) : ct \in {"image/jpeg", "none", "application/json"}}
    \cup {HttpOk("application/json", TRUE, d) : d \in InfoDocs \cup OtherDocs}
    \cup {HttpOk("application/ld+json", TRUE, d) : d \in {Native @@ ("@id" :> "svc")}}
    \cup {HttpOk("image/jpeg", TRUE, d) : d \in {Native @@ ("@id" :> "svc")}}

Returned(url) == [threw |-> FALSE, url |-> url]
Threw == [threw |-> TRUE]

\* a variant without the try/catch: a failed fetch, an unparsable body and
\* the error of constructIIIFImageUrl are thrown
processIIIFImageUrlNoCatch(imgUrl, maxWidth, maxHeight, r) ==
    IF r.kind = "neterr" THEN Threw
    ELSE IF ~r.ok THEN Returned(imgUrl)
    ELSE IF r.ctype \in JsonTypes
         THEN IF ~r.parses THEN Threw
              ELSE IF isIIIFImageInfo(r.data)
                   THEN constructIIIFImageUrl(r.data, maxWidth, maxHeight)
                   ELSE Returned(imgUrl)
         ELSE Returned(imgUrl)

\* processIIIFImageUrl once the response r to fetch(imgUrl) is known: what
\* it returns, or that it threw
processIIIFImageUrl(imgUrl, maxWidth, maxHeight, r) ==
    IF r.kind = "neterr" THEN Returned(imgUrl)
    ELSE IF ~r.ok THEN Returned(imgUrl)
    ELSE IF r.ctype \in JsonTypes
         THEN IF ~r.parses THEN Returned(imgUrl)
              ELSE IF isIIIFImageInfo(r.data)
                   THEN LET c == constructIIIFImageUrl(r.data, maxWidth, maxHeight)
                        IN IF c.threw THEN Returned(imgUrl) ELSE c
                   ELSE Returned(imgUrl)
         ELSE Returned(imgUrl)

----------------------------------------------------------------------------
(* The resolver: fetchPageViewerData as a state machine.  A step runs the   *)
(* code from one await of a fetch to the next.                              *)

\* a reference: nothing (null, undefined, ""), a string, or an object
NoRef == [kind |-> "none"]
StrRef(s) == [kind |-> "str", str |-> s]
ObjRef(o) == [kind |-> "obj", obj |-> o]

CanvasUrl == <<"https://h/canvas">>
ManifestUrl == <<"https://h/manifest">>
AnnotationPageUrl == <<"https://h/page">>
TargetUrl == <<"https://h/target">>
BareId == <<"c1">>
UndefinedUrl == <<"undefined">>
AbsoluteUrls == {CanvasUrl, ManifestUrl, AnnotationPageUrl, TargetUrl}

\* new URL(str) succeeds on an absolute URL and throws on a bare identifier
isValidUrl(str) == str \in AbsoluteUrls

Null == [null |-> TRUE]
Pending == [pending |-> TRUE]

VARIABLES
    pc,           \* where fetchPageViewerData stands
    args,         \* its arguments canvas, manifest, annotationPage
    materialized, \* canvasData, manifestData, annotationPageData
    targetCanvas, \* the canvas that extractImageInfo is given
    canvasInfo,   \* what extractImageInfo returned
    lines,        \* processPageData: the array Promise.all is filling
    inflight,     \* the fetches awaited now
    log,          \* every fetch issued, in order
    replies,      \* history: the response to each fetch of log, or Pending
    result,       \* the value the promise resolved with, or Null
    error,        \* the message of the error it rejected with, or ""
    xywh,         \* a selector string and what parseXYWH made of it
    loads,        \* the viewer: every loadPage call, where it stands, what it got
    container,    \* the viewer: what the page container shows
    posted,       \* the viewer: the messages posted to the parent window
    location,     \* the viewer: the query string set by history.replaceState
    hist,         \* history: the load that resolved last, and what it got
    parked,       \* a second resolve call, suspended at an await, or Null
    canvasLoad,   \* the single-URL viewer: its calls of loadCanvas
    sizing        \* a call of constructIIIFImageUrl: its arguments, what it returned

resolverVars == <<pc, args, materialized, targetCanvas, canvasInfo, lines, inflight, log,
                  replies, result, error>>
viewerVars == <<loads, container, posted, location, hist>>
vars == <<pc, args, materialized, targetCanvas, canvasInfo, lines, inflight, log,
          replies, result, error, xywh, loads, container, posted, location, hist, parked, canvasLoad, sizing>>

canvasData == materialized.canvas
manifestData == materialized.manifest
annotationPageData == materialized.annotationPage

Slots == {"canvas", "manifest", "annotationPage"}
NextSlot(which) ==
    CASE which = "canvas" -> "manifest"
      [] which = "manifest" -> "annotationPage"
      [] which = "annotationPage" -> "dispatch"

\* the documents a URL of the model can serve: a few of the documents that
\* an object reference can hand over, since the code treats a fetched
\* document and a handed-over one alike from here on
PageWithTarget ==
    [target |-> TargetUrl, items |-> <<[id |-> <<"https://h/a1">>, target |-> JStr(<<"c", "1">>)]>>]
DocsAt(which) ==
    CASE which = "canvas" ->
           {MkCanvas("v3", "id", "c1", FullDims, <<"img1">>),
            MkCanvas("v2", "@id", "c2", SmallDims, <<"img2">>),
            MkCanvas("v3", "id", "c1", [height |-> 800], <<"img1">>),
            PageWithTarget}
      [] which = "manifest" ->
           {ManifestV3(<<"c1", "c2">>), ManifestV2(<<"c1", "c2">>), ManifestV3(<<>>)}
      [] which = "annotationPage" ->
           {[type |-> "AnnotationPage", items |-> <<>>],
            [type |-> "AnnotationPage",
             items |-> <<[id |-> "a2", target |-> JStr(Sel2)]>>]}
      [] which = "target" -> CanvasDocs
      [] which = "line" -> AnnoDocs

Failures == {NetErr, HttpFail, NoJson("none")}
Responses(which) == Failures \cup {HttpOk("application/json", TRUE, d) : d \in DocsAt(which)}

CanvasRefs == {NoRef, StrRef(CanvasUrl), StrRef(BareId)} \cup {ObjRef(o) : o \in CanvasDocs \cup PageDocs}
ManifestRefs == {NoRef, StrRef(ManifestUrl)} \cup {ObjRef(o) : o \in ManifestDocs}
AnnotationPageRefs == {NoRef, StrRef(AnnotationPageUrl)} \cup {ObjRef(o) : o \in AnnotationPageDocs}

NoXYWH == [target |-> <<>>, parsed |-> Null]

InitResolver ==
    /\ pc = "idle"
    /\ args = [canvas |-> NoRef, manifest |-> NoRef, annotationPage |-> NoRef]
    /\ materialized = [canvas |-> Null, manifest |-> Null, annotationPage |-> Null]
    /\ targetCanvas = Null
    /\ canvasInfo = Null
    /\ lines = <<>>
    /\ inflight = {}
    /\ log = <<>>
    /\ replies = <<>>
    /\ result = Null
    /\ error = ""

\* the viewer after construction and init() without URL parameters: no load
\* yet, the container shows "Waiting for ... from parent window..."
MaxLoads == 2
Loads == 1..MaxLoads
NoImage == [none |-> TRUE]
ShowsLoading == [msg |-> "loading", img |-> NoImage, boxes |-> <<>>]
IdleLoad == [pc |-> "idle"]
\* no call of loadCanvas yet
NoCanvasLoads == [calls |-> [l \in Loads |-> IdleLoad], last |-> Null]
InitViewer ==
    /\ loads = [l \in Loads |-> IdleLoad]
    /\ container = ShowsLoading
    /\ posted = <<>>
    /\ location = Null
    /\ hist = Null

Init == InitResolver /\ xywh = NoXYWH /\ InitViewer /\ parked = Null /\ canvasLoad = NoCanvasLoads /\ sizing = Null

\* throw: the promise rejects and nothing is returned
Reject(msg) ==
    /\ pc' = "rejected"
    /\ error' = msg
    /\ inflight' = {}
    /\ UNCHANGED result

\* fetch(url): the request is issued and awaited; got is the history so far
Issue(kind, url, got) ==
    /\ log' = Append(log, [kind |-> kind, url |-> url])
    /\ replies' = Append(got, Pending)
    /\ inflight' = {<<kind, 0>>}

\* the history with the response to the fetch issued last
Got(r) == [replies EXCEPT ![Len(log)] = r]

Call(canvas, manifest, annotationPage) ==
    /\ pc = "idle"
    /\ args' = [canvas |-> canvas, manifest |-> manifest, annotationPage |-> annotationPage]
    /\ pc' = "canvas"
    /\ UNCHANGED <<materialized, targetCanvas, canvasInfo, lines, inflight, log, replies,
                   result, error, xywh>>

\* a variant that fetches an object's own identifier again
MaterializeRefetching(which) ==
    /\ pc = which
    /\ inflight = {}
    /\ LET type == args[which]
       IN CASE type.kind = "none" ->
                 IF which = "canvas"
                 THEN /\ Reject("No canvas/manifest/annotationPage/annotation provided")
                      /\ UNCHANGED <<materialized, log, replies>>
                 ELSE /\ pc' = NextSlot(which)
                      /\ UNCHANGED <<materialized, log, replies, inflight, error, result>>
            [] type.kind = "str" ->
                 IF isValidUrl(type.str)
                 THEN /\ Issue(which, type.str, replies)
                      /\ UNCHANGED <<pc, materialized, error, result>>
                 ELSE /\ Reject("Invalid canvas/manifest/annotationPage/annotation format")
                      /\ UNCHANGED <<materialized, log, replies>>
            [] type.kind = "obj" ->
                 /\ Issue(which, CanvasUrl, replies)
                 /\ UNCHANGED <<pc, materialized, error, result>>
    /\ UNCHANGED <<args, targetCanvas, canvasInfo, lines, xywh>>

\* getSpecificTypeData up to its fetch; a missing manifest or annotation page
\* is null without a call
Materialize(which) ==
    /\ pc = which
    /\ inflight = {}
    /\ LET type == args[which]
       IN CASE type.kind = "none" ->
                 IF which = "canvas"
                 THEN /\ Reject("No canvas/manifest/annotationPage/annotation provided")
                      /\ UNCHANGED <<materialized, log, replies>>
                 ELSE /\ pc' = NextSlot(which)
                      /\ UNCHANGED <<materialized, log, replies, inflight, error, result>>
            [] type.kind = "str" ->
                 IF isValidUrl(type.str)
                 THEN /\ Issue(which, type.str, replies)
                      /\ UNCHANGED <<pc, materialized, error, result>>
                 ELSE /\ Reject("Invalid canvas/manifest/annotationPage/annotation format")
                      /\ UNCHANGED <<materialized, log, replies>>
            [] type.kind = "obj" ->
                 /\ materialized' = [materialized EXCEPT ![which] = type.obj]
                 /\ pc' = NextSlot(which)
                 /\ UNCHANGED <<log, replies, inflight, error, result>>
    /\ UNCHANGED <<args, targetCanvas, canvasInfo, lines, xywh>>

\* a variant that reads the body whatever the status
MaterializeResponseUnchecked(which, r) ==
    /\ pc = which
    /\ inflight = {<<which, 0>>}
    /\ replies' = Got(r)
    /\ IF r.kind = "neterr" THEN Reject("Failed to fetch") /\ UNCHANGED materialized
       ELSE /\ materialized' = [materialized EXCEPT
                                   ![which] = IF r.ok /\ r.parses THEN r.data
                                              ELSE [error |-> "Not Found"]]
            /\ pc' = NextSlot(which)
            /\ inflight' = {}
            /\ UNCHANGED <<error, result>>
    /\ UNCHANGED <<args, targetCanvas, canvasInfo, lines, log, xywh>>

\* getSpecificTypeData from the response on
MaterializeResponse(which, r) ==
    /\ pc = which
    /\ inflight = {<<which, 0>>}
    /\ replies' = Got(r)
    /\ IF r.kind = "neterr" THEN Reject("Failed to fetch") /\ UNCHANGED materialized
       ELSE IF ~r.ok
            THEN /\ Reject("Failed to fetch canvas/manifest/annotationPage/annotation data from URL")
                 /\ UNCHANGED materialized
       ELSE IF ~r.parses THEN Reject("Unexpected token") /\ UNCHANGED materialized
       ELSE /\ materialized' = [materialized EXCEPT ![which] = r.data]
            /\ pc' = NextSlot(which)
            /\ inflight' = {}
            /\ UNCHANGED <<error, result>>
    /\ UNCHANGED <<args, targetCanvas, canvasInfo, lines, log, xywh>>

\* canvasData.id || canvasData["@id"]
CanvasIdOf(c) == IF TruthyStr(StrOf(c, "id")) THEN c.id ELSE StrOf(c, "@id")

\* item.id === canvasID || item["@id"] === canvasID  (v3 items)
MatchV3(item, canvasID) == StrOf(item, "id") = canvasID \/ StrOf(item, "@id") = canvasID
\* canvas["@id"] === canvasID  (v2 canvases)
MatchV2(canvas, canvasID) == StrOf(canvas, "@id") = canvasID

\* the indices of the entries a find callback accepts
Hits(entries, canvasID, ver) ==
    {i \in 1..Len(entries) :
        IF ver = 3 THEN MatchV3(entries[i], canvasID) ELSE MatchV2(entries[i], canvasID)}

\* Array.prototype.find alone, without the ?? array[0]: the first matching
\* entry as a one-element sequence; the empty sequence is undefined
FindOnly(entries, canvasID, ver) ==
    LET hits == Hits(entries, canvasID, ver)
    IN IF hits # {} THEN <<entries[CHOOSE i \in hits : \A j \in hits : i <= j]>> ELSE <<>>

\* Array.prototype.find(...) ?? array[0]: the first matching entry, else the
\* first entry; the empty sequence is undefined
FindOrFirst(entries, canvasID, ver) ==
    IF FindOnly(entries, canvasID, ver) # <<>> THEN FindOnly(entries, canvasID, ver)
    ELSE IF Len(entries) > 0 THEN <<entries[1]>>
    ELSE <<>>

\* the canvas collection extractCanvasFromManifest scans: v3 items, else v2
\* sequences[0].canvases; the empty sequence of a manifest with neither
HasV2Canvases(m) ==
    Has(m, "sequences") /\ Len(m.sequences) > 0 /\ Has(m.sequences[1], "canvases")

\* a variant without the fallback to the first entry
FindTargetCanvasNoFallback(m, c) ==
    IF Has(m, "items") THEN FindOnly(m.items, CanvasIdOf(c), 3)
    ELSE IF HasV2Canvases(m) THEN FindOnly(m.sequences[1].canvases, CanvasIdOf(c), 2)
    ELSE <<>>

\* a variant that takes the first entry whatever the identifier
FindTargetCanvasFirst(m, c) ==
    IF Has(m, "items") THEN (IF Len(m.items) > 0 THEN <<m.items[1]>> ELSE <<>>)
    ELSE IF HasV2Canvases(m)
         THEN (IF Len(m.sequences[1].canvases) > 0 THEN <<m.sequences[1].canvases[1]>> ELSE <<>>)
    ELSE <<>>

\* a variant that falls back to the supplied canvas when the manifest has none
FindTargetCanvasOrSupplied(m, c) ==
    IF Has(m, "items") /\ m.items # <<>> THEN FindOrFirst(m.items, CanvasIdOf(c), 3)
    ELSE IF HasV2Canvases(m) /\ m.sequences[1].canvases # <<>>
         THEN FindOrFirst(m.sequences[1].canvases, CanvasIdOf(c), 2)
    ELSE <<c>>

\* the target canvas of extractCanvasFromManifest, <<>> when it throws
FindTargetCanvas(m, c) ==
    IF Has(m, "items") THEN FindOrFirst(m.items, CanvasIdOf(c), 3)
    ELSE IF HasV2Canvases(m) THEN FindOrFirst(m.sequences[1].canvases, CanvasIdOf(c), 2)
    ELSE <<>>

\* extractImageInfo: the image identifier by vocabulary fallback
V3ImageOf(c) ==
    IF /\ Has(c, "items") /\ Len(c.items) > 0
       /\ Has(c.items[1], "items") /\ Len(c.items[1].items) > 0
       /\ Has(c.items[1].items[1], "body")
       /\ Has(c.items[1].items[1].body, "id")
    THEN c.items[1].items[1].body.id ELSE NoUrl
V2ResourceOf(c, key) ==
    IF /\ Has(c, "images") /\ Len(c.images) > 0
       /\ Has(c.images[1], "resource")
       /\ Has(c.images[1].resource, key)
    THEN c.images[1].resource[key] ELSE NoUrl
ImgUrlOf(c) ==
    IF V3ImageOf(c) # NoUrl THEN V3ImageOf(c)
    ELSE IF V2ResourceOf(c, "@id") # NoUrl THEN V2ResourceOf(c, "@id")
    ELSE V2ResourceOf(c, "id")

\* a variant that forgets the height
MissingImageDataNoHeight(c) == ImgUrlOf(c) = NoUrl \/ ~TruthyNum(c, "width")

\* !imgUrl || !imgWidth || !imgHeight
MissingImageData(c) ==
    ImgUrlOf(c) = NoUrl \/ ~TruthyNum(c, "width") \/ ~TruthyNum(c, "height")

\* a variant that takes anno.target whole, selector or not
AnnotationOfWholeTarget(anno) ==
    [target |-> IF Has(anno, "target") THEN anno.target ELSE JUndef,
     text |-> IF Has(anno, "body") /\ Has(anno.body, "value") THEN anno.body.value ELSE "",
     lineid |-> StrOf(anno, "id")]

\* one annotation of the result, from an embedded or a fetched annotation
AnnotationOf(anno) ==
    [target |-> IF Has(anno, "target") /\ Has(anno.target, "selector")
                   /\ Has(anno.target.selector, "value")
                THEN JStr(anno.target.selector.value)
                ELSE IF Has(anno, "target") THEN anno.target ELSE JUndef,
     text |-> IF Has(anno, "body") /\ Has(anno.body, "value") THEN anno.body.value ELSE "",
     lineid |-> StrOf(anno, "id")]

\* annotationPageData.items mapped, [] when there is no items key
AnnotationsOfPage(page) ==
    IF Has(page, "items") THEN [i \in 1..Len(page.items) |-> AnnotationOf(page.items[i])]
    ELSE <<>>

\* a variant that hands over the canvas when there is no annotation page
PageGivenFromCanvas == IF annotationPageData # Null THEN annotationPageData ELSE canvasData

\* the annotation page processDirectCanvasData is given
PageGiven == IF annotationPageData # Null THEN annotationPageData ELSE [items |-> <<>>]

\* a value that is a string or an object is truthy unless it is undefined or
\* the empty string
Truthy(t) == t # JUndef /\ t # JStr(<<>>)

\* canvasData.items && canvasData.items.length > 0 && canvasData.items[0].target
IsPageShape(c) ==
    /\ Has(c, "items")
    /\ Len(c.items) > 0
    /\ Has(c.items[1], "target")
    /\ Truthy(c.items[1].target)

\* Array.prototype.filter(anno => anno !== null)
RECURSIVE FilterNonNull(_)
FilterNonNull(as) ==
    IF as = <<>> THEN <<>>
    ELSE IF Head(as) = Null THEN FilterNonNull(Tail(as))
         ELSE <<Head(as)>> \o FilterNonNull(Tail(as))

\* { ...canvasInfo, annotations }
Merge(info, annotations) ==
    [imgUrl |-> info.imgUrl, imgWidth |-> info.imgWidth, imgHeight |-> info.imgHeight,
     annotations |-> annotations]

\* a variant that takes the dimensions from the size chosen for the image URL
CanvasInfoFromUrl(c, url) ==
    IF Len(url) = 5
    THEN [imgUrl |-> url, imgWidth |-> url[3][1], imgHeight |-> url[3][2]]
    ELSE [imgUrl |-> url, imgWidth |-> c.width, imgHeight |-> c.height]

\* { imgUrl: processedImageUrl, imgWidth, imgHeight } of extractImageInfo
CanvasInfoOf(c, url) == [imgUrl |-> url, imgWidth |-> c.width, imgHeight |-> c.height]

\* extractImageInfo(c) up to the probe's fetch
ExtractImageInfo(c, got) ==
    /\ targetCanvas' = c
    /\ IF MissingImageData(c)
       THEN /\ Reject("Missing required image data in IIIF canvas")
            /\ replies' = got
            /\ UNCHANGED log
       ELSE /\ Issue("probe", ImgUrlOf(c), got)
            /\ pc' = "probe"
            /\ UNCHANGED <<error, result>>

\* extractCanvasFromManifest, into processDirectCanvasData
ExtractCanvasFromManifest ==
    /\ pc = "dispatch"
    /\ manifestData # Null
    /\ LET found == FindTargetCanvas(manifestData, canvasData)
       IN IF found = <<>>
          THEN Reject("No canvas found in manifest") /\ UNCHANGED <<targetCanvas, log, replies>>
          ELSE ExtractImageInfo(found[1], replies)
    /\ UNCHANGED <<args, materialized, canvasInfo, lines, xywh, viewerVars, parked, canvasLoad, sizing>>

\* processDirectCanvasData on the canvas itself
ProcessDirectCanvasData ==
    /\ pc = "dispatch"
    /\ manifestData = Null
    /\ annotationPageData # Null \/ ~IsPageShape(canvasData)
    /\ ExtractImageInfo(canvasData, replies)
    /\ UNCHANGED <<args, materialized, canvasInfo, lines, xywh, viewerVars, parked, canvasLoad, sizing>>

\* a variant that fetches the annotations along with data.target
ProcessPageDataEager ==
    /\ pc = "dispatch"
    /\ manifestData = Null
    /\ annotationPageData = Null
    /\ IsPageShape(canvasData)
    /\ log' = Append(log, [kind |-> "target",
                           url |-> IF Has(canvasData, "target") THEN canvasData.target
                                   ELSE UndefinedUrl])
              \o [i \in 1..Len(canvasData.items) |->
                     [kind |-> "line", url |-> canvasData.items[i].id]]
    /\ replies' = replies \o [i \in 1..(1 + Len(canvasData.items)) |-> Pending]
    /\ inflight' = {<<"target", 0>>}
    /\ pc' = "target"
    /\ UNCHANGED <<args, materialized, targetCanvas, canvasInfo, lines, result, error, xywh,
                   viewerVars, parked, canvasLoad, sizing>>

\* processPageData up to the fetch of data.target
ProcessPageData ==
    /\ pc = "dispatch"
    /\ manifestData = Null
    /\ annotationPageData = Null
    /\ IsPageShape(canvasData)
    /\ Issue("target", IF Has(canvasData, "target") THEN canvasData.target ELSE UndefinedUrl,
             replies)
    /\ pc' = "target"
    /\ UNCHANGED <<args, materialized, targetCanvas, canvasInfo, lines, result, error, xywh,
                   viewerVars, parked, canvasLoad, sizing>>

\* what the URL of data.target can answer; the URL "undefined" of a page
\* without target names no document
TargetResponses ==
    IF Has(canvasData, "target") THEN Responses("target") ELSE Failures

\* processPageData from the target's response to the probe's fetch
TargetResponse(r) ==
    /\ pc = "target"
    /\ inflight = {<<"target", 0>>}
    /\ IF r.kind = "neterr"
       THEN Reject("Failed to fetch") /\ replies' = Got(r) /\ UNCHANGED <<targetCanvas, log>>
       ELSE IF ~r.ok
       THEN /\ Reject("Failed to fetch target data")
            /\ replies' = Got(r)
            /\ UNCHANGED <<targetCanvas, log>>
       ELSE IF ~r.parses
       THEN Reject("Unexpected token") /\ replies' = Got(r) /\ UNCHANGED <<targetCanvas, log>>
       ELSE ExtractImageInfo(r.data, Got(r))
    /\ UNCHANGED <<args, materialized, canvasInfo, lines, xywh>>

\* the fetches of the annotations, issued together in the order of the items
LineFetches(items) == [i \in 1..Len(items) |-> [kind |-> "line", url |-> items[i].id]]

\* whether processPageData is what runs: it fetched data.target
Paged == \E i \in 1..Len(log) : log[i].kind = "target"

\* extractImageInfo from the probe's response on, and what follows it:
\* processDirectCanvasData returns; processPageData returns on an empty
\* items list and issues the fetches of the annotations otherwise
ProbeResponse(r) ==
    /\ pc = "probe"
    /\ inflight = {<<"probe", 0>>}
    /\ LET p == processIIIFImageUrl(ImgUrlOf(targetCanvas), targetCanvas.width,
                                    targetCanvas.height, r)
           info == CanvasInfoOf(targetCanvas, p.url)
       IN IF p.threw
          THEN /\ Reject("Error processing IIIF image URL")
               /\ replies' = Got(r)
               /\ UNCHANGED <<canvasInfo, lines, log>>
          ELSE /\ canvasInfo' = info
               /\ UNCHANGED error
               /\ IF ~Paged
                  THEN /\ result' = Merge(info, AnnotationsOfPage(PageGiven))
                       /\ pc' = "resolved"
                       /\ inflight' = {}
                       /\ replies' = Got(r)
                       /\ UNCHANGED <<lines, log>>
                  ELSE IF Len(canvasData.items) = 0
                  THEN /\ result' = Merge(info, <<>>)
                       /\ pc' = "resolved"
                       /\ inflight' = {}
                       /\ replies' = Got(r)
                       /\ UNCHANGED <<lines, log>>
                  ELSE /\ lines' = [i \in 1..Len(canvasData.items) |-> Pending]
                       /\ log' = log \o LineFetches(canvasData.items)
                       /\ replies' = Got(r) \o [i \in 1..Len(canvasData.items) |-> Pending]
                       /\ inflight' = {<<"line", i>> : i \in 1..Len(canvasData.items)}
                       /\ pc' = "lines"
                       /\ UNCHANGED result
    /\ UNCHANGED <<args, materialized, targetCanvas, xywh>>

\* one callback of data.items.map: null when the fetch fails, the status is
\* not a success or the body does not parse
LineOf(r) ==
    IF r.kind = "neterr" THEN Null
    ELSE IF ~r.ok THEN Null
    ELSE IF ~r.parses THEN Null
    ELSE AnnotationOf(r.data)

\* where the fetch of annotation i stands in log
LineIndex(i) == Len(log) - Len(lines) + i

\* a variant without the try/catch and the null results: a failed fetch of an
\* annotation rejects Promise.all
LineResponseStrict(i, r) ==
    /\ pc = "lines"
    /\ <<"line", i>> \in inflight
    /\ replies' = [replies EXCEPT ![LineIndex(i)] = r]
    /\ IF LineOf(r) = Null
       THEN Reject("Failed to fetch annotation") /\ UNCHANGED lines
       ELSE /\ lines' = [lines EXCEPT ![i] = LineOf(r)]
            /\ inflight' = inflight \ {<<"line", i>>}
            /\ UNCHANGED error
            /\ IF inflight' = {}
               THEN /\ result' = Merge(canvasInfo, FilterNonNull(lines'))
                    /\ pc' = "resolved"
               ELSE UNCHANGED <<result, pc>>
    /\ UNCHANGED <<args, materialized, targetCanvas, canvasInfo, log, xywh>>

\* a variant that collects the annotations in the order their fetches
\* complete
LineResponseInArrivalOrder(i, r) ==
    /\ pc = "lines"
    /\ <<"line", i>> \in inflight
    /\ replies' = [replies EXCEPT ![LineIndex(i)] = r]
    /\ LET k == Len(lines) - Cardinality(inflight) + 1
       IN lines' = [lines EXCEPT ![k] = LineOf(r)]
    /\ inflight' = inflight \ {<<"line", i>>}
    /\ IF inflight' = {}
       THEN /\ result' = Merge(canvasInfo, FilterNonNull(lines'))
            /\ pc' = "resolved"
       ELSE UNCHANGED <<result, pc>>
    /\ UNCHANGED <<args, materialized, targetCanvas, canvasInfo, log, error, xywh>>

\* the response to the fetch of annotation i; the last one to arrive settles
\* Promise.all, and processPageData returns the annotations that are not null
LineResponse(i, r) ==
    /\ pc = "lines"
    /\ <<"line", i>> \in inflight
    /\ replies' = [replies EXCEPT ![LineIndex(i)] = r]
    /\ lines' = [lines EXCEPT ![i] = LineOf(r)]
    /\ inflight' = inflight \ {<<"line", i>>}
    /\ IF inflight' = {}
       THEN /\ result' = Merge(canvasInfo, FilterNonNull(lines'))
            /\ pc' = "resolved"
       ELSE UNCHANGED <<result, pc>>
    /\ UNCHANGED <<args, materialized, targetCanvas, canvasInfo, log, error, xywh>>

\* the calls of the model: every canvas reference with every annotation-page
\* reference and no manifest, and every manifest reference with the canvas
\* references that differ in how they carry their identifier
IdCanvasRefs ==
    {NoRef, StrRef(CanvasUrl), StrRef(BareId),
     ObjRef(MkCanvas("v3", "id", "c1", FullDims, <<"img1">>)),
     ObjRef(MkCanvas("v2", "@id", "c1", FullDims, <<"img1">>)),
     ObjRef(MkCanvas("v2", "@id", "c2", SmallDims, <<"img2">>))}
    \cup {ObjRef(MkCanvas("v3", k, "c2", SmallDims, <<"img2">>)) : k \in {"id", "@id", "none"}}
Calls ==
    (CanvasRefs \X {NoRef} \X AnnotationPageRefs)
    \cup (IdCanvasRefs \X ManifestRefs \X {NoRef, StrRef(AnnotationPageUrl)})

Start ==
    /\ pc = "idle"
    /\ \E c \in Calls : Call(c[1], c[2], c[3])
    /\ UNCHANGED <<viewerVars, parked, canvasLoad, sizing>>
Step ==
    /\ pc \in Slots /\ inflight = {}
    /\ Materialize(pc)
    /\ UNCHANGED <<viewerVars, parked, canvasLoad, sizing>>
Arrive ==
    /\ pc \in Slots /\ inflight # {}
    /\ \E r \in Responses(pc) : MaterializeResponse(pc, r)
    /\ UNCHANGED <<viewerVars, parked, canvasLoad, sizing>>
TargetArrives ==
    /\ pc = "target"
    /\ \E r \in TargetResponses : TargetResponse(r)
    /\ UNCHANGED <<viewerVars, parked, canvasLoad, sizing>>
ProbeArrives ==
    /\ pc = "probe"
    /\ \E r \in ProbeResponses : ProbeResponse(r)
    /\ UNCHANGED <<viewerVars, parked, canvasLoad, sizing>>
LineArrives ==
    /\ pc = "lines"
    /\ \E i \in 1..Len(lines), r \in Responses("line") : LineResponse(i, r)
    /\ UNCHANGED <<viewerVars, parked, canvasLoad, sizing>>

Next ==
    \/ Start
    \/ Step
    \/ Arrive
    \/ ExtractCanvasFromManifest
    \/ ProcessDirectCanvasData
    \/ ProcessPageData
    \/ TargetArrives
    \/ ProbeArrives
    \/ LineArrives

Spec == Init /\ [][Next]_vars

----------------------------------------------------------------------------
(* parseXYWH on its own: a selector is drawn, then parsed *)

XValues == {0, 10, 255}
YValues == {20, 5}
WValues == {30, 100}
HValues == {40, 7}
Prefixes == {<<>>, PlainPrefix, PixelPrefix}

\* the string `${prefix}${x},${y},${w},${h}`
Selector(prefix, x, y, w, h) ==
    prefix \o NumToStr(x) \o <<",">> \o NumToStr(y) \o <<",">> \o NumToStr(w)
           \o <<",">> \o NumToStr(h)

\* and two selectors whose numbers are written with a radix prefix
Selectors ==
    {Selector(p, x, y, w, h) :
        p \in Prefixes, x \in XValues, y \in YValues, w \in WValues, h \in HValues}
    \cup {<<"0", "x", "1", "0", ",", "0", "b", "1", "1", ",", "0", "o", "1", "7", ",", "4">>,
           PixelPrefix \o <<"0", "X", "1", "f", ",", "2", ",", "3", ",", "0", "x">>}

InitXYWH ==
    /\ InitResolver /\ InitViewer /\ parked = Null /\ canvasLoad = NoCanvasLoads /\ sizing = Null
    /\ \E t \in Selectors : xywh = [target |-> t, parsed |-> Null]

Parse ==
    /\ xywh.parsed = Null
    /\ xywh' = [xywh EXCEPT !.parsed = parseXYWH(xywh.target)]
    /\ UNCHANGED <<resolverVars, viewerVars, parked, canvasLoad, sizing>>

SpecXYWH == InitXYWH /\ [][Parse]_vars

----------------------------------------------------------------------------
(* The data service of the page viewer (iiif-data-service.js): what         *)
(* fetchPageData comes to, given the responses to the fetches it issues.    *)
(* Its awaits touch nothing but its own locals.                             *)

Thrown(msg) == [threw |-> TRUE, msg |-> msg]
Value(v) == [threw |-> FALSE, value |-> v]
FetchFails(r) == r.kind = "neterr" \/ ~r.ok \/ ~r.parses

\* an identifier as its path segments: id.split("/")
LineUrl(name) == <<"https:", "", "h", name>>
LastSegment(id) == id[Len(id)]

ItemSel ==
    [id |-> LineUrl("a1"), target |-> [source |-> "c1", selector |-> [value |-> Sel1]],
     body |-> [value |-> "Hello"]]
ItemNoTarget == [id |-> LineUrl("a2"), body |-> [value |-> "World"]]
ItemObjTarget == [id |-> LineUrl("a3"), target |-> [source |-> "c1"]]
ItemLists == {<<>>, <<ItemSel>>, <<ItemNoTarget, ItemSel>>, <<ItemSel, ItemObjTarget>>}

\* the documents served at a page URL: a page naming its canvas, and a bare
\* canvas
ViewPages ==
    {[target |-> "c2", items |-> its] : its \in ItemLists}
    \cup {MkCanvas("v3", "id", "c1", FullDims, <<"img1">>)}
ViewManifests == {ManifestV3(<<"c1", "c2">>)}
ViewService == Native @@ [type |-> "ImageService3", id |-> "svc"]
Served(docs) == {HttpFail} \cup {HttpOk("application/json", TRUE, d) : d \in docs}

isManifestData(data) ==
    \/ StrOf(data, "type") = "Manifest"
    \/ StrOf(data, "@type") = "sc:Manifest"
    \/ Has(data, "sequences")
    \/ /\ Has(data, "items")
       /\ \E i \in 1..Len(data.items) : StrOf(data.items[i], "type") = "Canvas"

\* extractImageInfo, given the response to the probe
extractImageInfo(canvas, probe) ==
    IF MissingImageData(canvas)
    THEN Thrown("Missing required image data in IIIF canvas")
    ELSE Value(CanvasInfoOf(canvas,
                            processIIIFImageUrl(ImgUrlOf(canvas), canvas.width,
                                                canvas.height, probe).url))

\* one annotation, its lineid the last path segment of the id
lineOf(anno) ==
    [target |-> IF Has(anno, "target") /\ Has(anno.target, "selector")
                   /\ Has(anno.target.selector, "value")
                THEN JStr(anno.target.selector.value)
                ELSE IF Has(anno, "target") THEN anno.target ELSE JUndef,
     text |-> IF Has(anno, "body") /\ Has(anno.body, "value") THEN anno.body.value ELSE "",
     lineid |-> IF Has(anno, "id") THEN LastSegment(anno.id) ELSE UNDEF]

processDirectCanvasData(canvas, pageData, probe) ==
    LET info == extractImageInfo(canvas, probe)
    IN IF info.threw THEN info
       ELSE Value(Merge(info.value,
                        IF Has(pageData, "items")
                        THEN [i \in 1..Len(pageData.items) |-> lineOf(pageData.items[i])]
                        ELSE <<>>))

\* the first entry whose identifier under key is target, else the first entry
findCanvas(entries, key, target) ==
    LET hits == {i \in 1..Len(entries) : StrOf(entries[i], key) = target}
    IN IF hits # {} THEN <<entries[CHOOSE i \in hits : \A j \in hits : i <= j]>>
       ELSE IF Len(entries) > 0 THEN <<entries[1]>>
       ELSE <<>>

extractCanvasFromManifest(manifest, pageData, probe) ==
    LET target == StrOf(pageData, "target")
        found == IF Has(manifest, "items") THEN findCanvas(manifest.items, "id", target)
                 ELSE IF HasV2Canvases(manifest)
                      THEN findCanvas(manifest.sequences[1].canvases, "@id", target)
                 ELSE <<>>
    IN IF found = <<>> THEN Thrown("No canvas found in manifest")
       ELSE processDirectCanvasData(found[1], pageData, probe)

processPageData(data, target, probe, lineReplies) ==
    IF target.kind = "neterr" THEN Thrown("Failed to fetch")
    ELSE IF ~target.ok THEN Thrown("Failed to fetch target data")
    ELSE IF ~target.parses THEN Thrown("Unexpected token")
    ELSE LET info == extractImageInfo(target.data, probe)
         IN IF info.threw THEN info
            ELSE IF ~Has(data, "items") THEN Thrown("Cannot read properties of undefined")
            ELSE Value(Merge(info.value,
                   FilterNonNull([i \in 1..Len(data.items) |->
                       IF FetchFails(lineReplies[i]) THEN Null
                       ELSE lineOf(lineReplies[i].data)])))

\* web: the responses to the fetch of manifestUrl || pageId, of pageId, of
\* data.target, of the image identifier and of each annotation
fetchPageData(web) ==
    IF web.first.kind = "neterr" THEN Thrown("Failed to fetch")
    ELSE IF ~web.first.ok THEN Thrown("Failed to fetch data from URL")
    ELSE IF ~web.first.parses THEN Thrown("Unexpected token")
    ELSE IF isManifestData(web.first.data)
         THEN IF web.page.kind = "neterr" THEN Thrown("Failed to fetch")
              ELSE IF ~web.page.ok THEN Thrown("Failed to fetch page data from URL")
              ELSE IF ~web.page.parses THEN Thrown("Unexpected token")
              ELSE extractCanvasFromManifest(web.first.data, web.page.data, web.probe)
    ELSE IF TruthyStr(StrOf(web.first.data, "target"))
         THEN processPageData(web.first.data, web.target, web.probe, web.lines)
    ELSE Thrown("Unsupported IIIF page data format")

\* the responses a load can meet: with a manifest URL the manifest and the
\* page; without, the page, its target canvas and its annotations
NoLines == <<>>
ViewProbes == {HttpOk("application/json", TRUE, ViewService)}
Webs(manifestUrl) ==
    IF TruthyStr(manifestUrl)
    THEN {[first |-> f, page |-> pg, target |-> HttpFail, probe |-> q, lines |-> NoLines] :
             f \in Served(ViewManifests), pg \in Served(ViewPages), q \in ViewProbes}
    ELSE UNION {
           {[first |-> f, page |-> HttpFail, target |-> t, probe |-> q, lines |-> ls] :
               t \in Served({MkCanvas("v3", "id", "c2", SmallDims, <<"img2">>)}),
               q \in ViewProbes,
               ls \in IF f.ok /\ Has(f.data, "target")
                      THEN [1..Len(f.data.items) -> Served({ItemSel})]
                      ELSE {NoLines}} :
           f \in Served({[target |-> "c2", items |-> <<ItemSel>>],
                         [target |-> "c2", items |-> <<>>],
                         [target |-> "", items |-> <<>>]})}
Outcomes(manifestUrl) == {fetchPageData(w) : w \in Webs(manifestUrl)}
\* the same, computed once for each manifest URL
OutcomeTable == [manifestUrl \in {"", "https://h/manifest"} |-> Outcomes(manifestUrl)]

----------------------------------------------------------------------------
(* The page viewer: PageViewer.loadPage and the UIManager.  A load runs from *)
(* one await that lets the page change to the next: the resolution of       *)
(* fetchPageData, then the load of the image.                               *)

MaxPosts == 1

ViewPageId == "https://h/page"
ViewManifestUrl == "https://h/manifest"
PageIds == {"", ViewPageId}
ManifestUrls == {"", ViewManifestUrl}
AnnotationId(k) == [id |-> k]
AnnotationIds == {Null, AnnotationId(1)}

\* a variant that puts the message over the page and keeps image and boxes
showErrorOverPage(message) ==
    [msg |-> "error", text |-> message, img |-> container.img, boxes |-> container.boxes]

\* UIManager.showError, showLoading, renderImage: container.innerHTML is
\* replaced, and with it the image and every overlay box
showError(message) == [msg |-> "error", text |-> message, img |-> NoImage, boxes |-> <<>>]
showLoading == ShowsLoading
renderImage(l, imgUrl) == [msg |-> "", img |-> [load |-> l, src |-> imgUrl], boxes |-> <<>>]
\* UIManager.clear: container.innerHTML = ""
clear == [msg |-> "", img |-> NoImage, boxes |-> <<>>]

\* if (!anno.target) return
TargetTruthy(t) == t # JUndef /\ t # JStr(<<>>)
\* parseXYWH on a target that is no string: target.replace is not a function
ParseThrows(annotations) ==
    \E i \in 1..Len(annotations) :
        TargetTruthy(annotations[i].target) /\ ~Has(annotations[i].target, "str")

\* createAnnotationBox: index is the position in annotations, from 0
createAnnotationBox(l, anno, index, imgWidth, imgHeight) ==
    [load |-> l,
     lineserverid |-> anno.lineid,
     lineid |-> index,
     title |-> IF anno.text # "" THEN anno.text ELSE "Annotation",
     at |-> parseXYWH(anno.target.str),
     of |-> <<imgWidth, imgHeight>>,
     clicked |-> FALSE]

\* the boxes renderAnnotations appends, for annotations from position n on;
\* built is history: the annotation a box was built from and its position
RECURSIVE BoxesFrom(_, _, _)
BoxesFrom(l, data, n) ==
    IF n > Len(data.annotations) THEN <<>>
    ELSE IF TargetTruthy(data.annotations[n].target)
         THEN <<[built |-> [anno |-> data.annotations[n], position |-> n - 1]]
                @@ createAnnotationBox(l, data.annotations[n], n - 1, data.imgWidth,
                                       data.imgHeight)>> \o BoxesFrom(l, data, n + 1)
         ELSE BoxesFrom(l, data, n + 1)
renderAnnotations(boxes, l, data) == boxes \o BoxesFrom(l, data, 1)

\* document.querySelector(`.overlayBox[data-lineid="${k}"]`): the position of
\* the first such box of the document, 0 for null
QueryLineId(boxes, k) ==
    IF \E i \in 1..Len(boxes) : boxes[i].lineid = k
    THEN CHOOSE i \in 1..Len(boxes) :
            boxes[i].lineid = k /\ \A j \in 1..(i - 1) : boxes[j].lineid # k
    ELSE 0
MarkClicked(boxes, i) == [boxes EXCEPT ![i].clicked = TRUE]

\* loadPage returns: its locals are gone
Finish(l, to) ==
    /\ loads' = [loads EXCEPT ![l] = [pc |-> to]]

\* a variant whose catch only logs
FailSilently(l, message) ==
    /\ UNCHANGED container
    /\ Finish(l, "failed")

\* the catch of loadPage
Fail(l, message) ==
    /\ container' = showError(message)
    /\ Finish(l, "failed")

\* loadPage up to the await of fetchPageData
LoadPage(l, pageId, annotationId, manifestUrl) ==
    /\ loads[l].pc = "idle"
    /\ \A k \in 1..(l - 1) : loads[k].pc # "idle"
    /\ IF ~TruthyStr(pageId)
       THEN /\ container' = showError("No page ID provided")
            /\ Finish(l, "failed")
       ELSE /\ container' = showLoading
            /\ loads' = [loads EXCEPT ![l] = [pc |-> "fetching", pageId |-> pageId,
                                              annotationId |-> annotationId,
                                              manifestUrl |-> manifestUrl]]
    /\ UNCHANGED <<posted, location, hist>>

\* fetchPageData settles; on a result, renderImage up to the image's load
Resolved(l, o) ==
    /\ loads[l].pc = "fetching"
    /\ IF o.threw
       THEN Fail(l, o.msg) /\ UNCHANGED hist
       ELSE /\ container' = renderImage(l, o.value.imgUrl)
            /\ loads' = [loads EXCEPT ![l] = [pc |-> "image", data |-> o.value] @@ @]
            /\ hist' = [load |-> l, data |-> o.value, annotationId |-> loads[l].annotationId]
    /\ UNCHANGED <<posted, location>>

\* history.replaceState(null, '', `?manifestUrl=..&pageId=..&annotationId=..`)
Query(l, annotationId) ==
    [manifestUrl |-> loads[l].manifestUrl, pageId |-> loads[l].pageId,
     annotationId |-> annotationId]

\* img.onload: renderAnnotations, then the selection of the first or the
\* requested annotation
ImageLoaded(l) ==
    /\ loads[l].pc = "image"
    /\ LET data == loads[l].data
           boxes == renderAnnotations(container.boxes, l, data)
           wanted == IF loads[l].annotationId # Null THEN loads[l].annotationId.id ELSE 0
           hit == QueryLineId(boxes, wanted)
       IN IF ParseThrows(data.annotations)
          THEN Fail(l, "target.replace is not a function") /\ UNCHANGED location
          ELSE IF loads[l].annotationId # Null
          THEN IF hit = 0
               THEN Fail(l, "Cannot read properties of null") /\ UNCHANGED location
               ELSE /\ container' = [container EXCEPT !.boxes = MarkClicked(boxes, hit)]
                    /\ location' = Query(l, AnnotationId(wanted))
                    /\ Finish(l, "done")
          ELSE IF Len(data.annotations) = 0
          THEN /\ container' = [container EXCEPT !.boxes = boxes]
               /\ location' = Query(l, Null)
               /\ Finish(l, "done")
          ELSE /\ location' = Query(l, AnnotationId(0))
               /\ IF hit = 0
                  THEN Fail(l, "Cannot read properties of null")
                  ELSE /\ container' = [container EXCEPT !.boxes = MarkClicked(boxes, hit)]
                       /\ Finish(l, "done")
    /\ UNCHANGED <<posted, hist>>

\* img.onerror
ImageError(l) ==
    /\ loads[l].pc = "image"
    /\ Fail(l, "Failed to load image")
    /\ UNCHANGED <<posted, location, hist>>

\* a variant that numbers the selected line from 1
selectAnnotationFromOne(i) ==
    /\ container' = [container EXCEPT
                        !.boxes = [j \in 1..Len(@) |-> [@[j] EXCEPT !.clicked = (j = i)]]]
    /\ posted' = Append(posted, [type |-> "RETURN_LINE_ID",
                                 lineid |-> container.boxes[i].lineserverid,
                                 lineIndex |-> container.boxes[i].lineid + 1])

\* selectAnnotation(box, anno.lineid, index) on box i of the document
selectAnnotation(i) ==
    /\ container' = [container EXCEPT
                        !.boxes = [j \in 1..Len(@) |-> [@[j] EXCEPT !.clicked = (j = i)]]]
    /\ posted' = Append(posted, [type |-> "RETURN_LINE_ID",
                                 lineid |-> container.boxes[i].lineserverid,
                                 lineIndex |-> container.boxes[i].lineid])

\* the click listener of box i
Click(i) ==
    /\ Len(posted) < MaxPosts
    /\ selectAnnotation(i)
    /\ UNCHANGED <<loads, location, hist>>

\* the keydown listener of box i: Enter and Space select, other keys do not
Keys == {"Enter", " ", "Tab"}
Keydown(i, key) ==
    /\ Len(posted) < MaxPosts
    /\ IF key = "Enter" \/ key = " "
       THEN selectAnnotation(i)
       ELSE UNCHANGED <<container, posted>>
    /\ UNCHANGED <<loads, location, hist>>

\* a caller that holds the exported viewer empties the container; nothing of
\* the page itself calls clear()
Clear ==
    /\ container' = clear
    /\ UNCHANGED <<loads, posted, location, hist>>

LoadStarts ==
    /\ \E l \in Loads, pageId \in PageIds, annotationId \in AnnotationIds,
          manifestUrl \in ManifestUrls : LoadPage(l, pageId, annotationId, manifestUrl)
    /\ UNCHANGED <<resolverVars, xywh, parked, canvasLoad, sizing>>
LoadResolves ==
    /\ \E l \in Loads :
          /\ loads[l].pc = "fetching"
          /\ \E o \in OutcomeTable[loads[l].manifestUrl] : Resolved(l, o)
    /\ UNCHANGED <<resolverVars, xywh, parked, canvasLoad, sizing>>
ImageLoads ==
    /\ \E l \in Loads : ImageLoaded(l)
    /\ UNCHANGED <<resolverVars, xywh, parked, canvasLoad, sizing>>
ImageFails ==
    /\ \E l \in Loads : ImageError(l)
    /\ UNCHANGED <<resolverVars, xywh, parked, canvasLoad, sizing>>
Clicks ==
    /\ \E i \in 1..Len(container.boxes) : Click(i)
    /\ UNCHANGED <<resolverVars, xywh, parked, canvasLoad, sizing>>
KeyPressed ==
    /\ \E i \in 1..Len(container.boxes), key \in Keys : Keydown(i, key)
    /\ UNCHANGED <<resolverVars, xywh, parked, canvasLoad, sizing>>
Clears ==
    /\ Clear
    /\ UNCHANGED <<resolverVars, xywh, parked, canvasLoad, sizing>>

NextViewer ==
    \/ LoadStarts
    \/ LoadResolves
    \/ ImageLoads
    \/ ImageFails
    \/ Clicks
    \/ KeyPressed
    \/ Clears

SpecViewer == Init /\ [][NextViewer]_vars

\* the loads alone, where every fetch that fetchPageData issues is answered,
\* so that its promise settles, and every image fires load or error
NextLoads ==
    \/ LoadStarts
    \/ LoadResolves
    \/ ImageLoads
    \/ ImageFails

SpecLoads ==
    Init /\ [][NextLoads]_vars /\ WF_vars(LoadResolves) /\ WF_vars(ImageFails \/ ImageLoads)

----------------------------------------------------------------------------
(* The message handler (message-handler.js): the parent window selects an   *)
(* annotation or asks for a page.                                           *)

\* event.data of the messages the parent sends; lineId and annotationId
\* count from 0
LineIds == 0..MaxPageItems
Events ==
    {[none |-> TRUE], [type |-> "RESIZE"]}
    \cup {[type |-> "SELECT_ANNOTATION", lineId |-> k] : k \in LineIds}
    \cup {[type |-> "ONLY_LOAD_PAGE", pageId |-> ViewPageId]}
    \cup {[type |-> "LOAD_MANIFEST_PAGE", pageId |-> ViewPageId,
           manifestUrl |-> ViewManifestUrl, annotationId |-> k] : k \in {0, 1}}

\* case "SELECT_ANNOTATION": querySelectorAll('.overlayBox') numbers the
\* boxes of the document from 0; every box but annotations[index] loses
\* 'clicked', and annotations[index], if there is one, gets it
selectByPosition(index) ==
    [j \in 1..Len(container.boxes) |->
        [container.boxes[j] EXCEPT !.clicked = IF j - 1 # index THEN FALSE ELSE TRUE]]

\* annotationId || null
OrNull(annotationId) == IF annotationId = 0 THEN Null ELSE AnnotationId(annotationId)

\* handleMessage(event)
handleMessage(data) ==
    IF ~Has(data, "type") THEN UNCHANGED viewerVars
    ELSE CASE data.type = "SELECT_ANNOTATION" ->
                /\ container' = [container EXCEPT !.boxes = selectByPosition(data.lineId)]
                /\ UNCHANGED <<loads, posted, location, hist>>
           [] data.type = "ONLY_LOAD_PAGE" ->
                \E l \in Loads : LoadPage(l, data.pageId, Null, "")
           [] data.type = "LOAD_MANIFEST_PAGE" ->
                \E l \in Loads :
                    LoadPage(l, data.pageId, OrNull(data.annotationId), data.manifestUrl)
           [] OTHER -> UNCHANGED viewerVars

MessageArrives ==
    /\ \E data \in Events : handleMessage(data)
    /\ UNCHANGED <<resolverVars, xywh, parked, canvasLoad, sizing>>

NextMessages ==
    \/ MessageArrives
    \/ LoadResolves
    \/ ImageLoads
    \/ ImageFails
    \/ Clicks

SpecMessages == Init /\ [][NextMessages]_vars

----------------------------------------------------------------------------
(* The single-URL viewer (viewer.js, the data service defined in the file   *)
(* itself): fetchCanvasData takes one URL, which may carry a fragment, and  *)
(* decides by the shape of the document what to do with it.  Its            *)
(* extractImageInfo and processIIIFImageUrl are its own: the probe's answer *)
(* is read as JSON only under a content type with 'application/json'.       *)

\* contentType && contentType.includes('application/json'), over the content
\* types of the model
PlainJsonTypes == {"application/json", "application/json;charset=utf-8"}

\* processIIIFImageUrl of viewer.js once the response r to fetch(imgUrl) is
\* known
processIIIFImageUrlOfViewer(imgUrl, maxWidth, maxHeight, r) ==
    IF r.kind = "neterr" THEN Returned(imgUrl)
    ELSE IF ~r.ok THEN Returned(imgUrl)
    ELSE IF r.ctype \in PlainJsonTypes
         THEN IF ~r.parses THEN Returned(imgUrl)
              ELSE IF isIIIFImageInfo(r.data)
                   THEN LET c == constructIIIFImageUrl(r.data, maxWidth, maxHeight)
                        IN IF c.threw THEN Returned(imgUrl) ELSE c
                   ELSE Returned(imgUrl)
         ELSE Returned(imgUrl)

\* extractImageInfo of viewer.js, given the response to the probe
extractImageInfoOfViewer(canvas, probe) ==
    IF MissingImageData(canvas)
    THEN Thrown("Missing required image data in IIIF canvas")
    ELSE Value(CanvasInfoOf(canvas,
                            processIIIFImageUrlOfViewer(ImgUrlOf(canvas), canvas.width,
                                                        canvas.height, probe).url))

\* a string ends with `/${canvasId}` or with `#${canvasId}`, over the
\* identifiers of the model
EndsWithFragment(id, canvasId) ==
    \/ id = "https://h/m/c2" /\ canvasId = "c2"
    \/ id = "https://h/m#c1" /\ canvasId = "c1"

\* isManifestData of viewer.js: the manifest tags, a sequences key, or an
\* items array whatever it holds
isManifestDataByShape(data) ==
    \/ StrOf(data, "type") = "Manifest"
    \/ StrOf(data, "@type") = "sc:Manifest"
    \/ Has(data, "sequences")
    \/ Has(data, "items")

\* Array.prototype.find with the callback id === canvasId ||
\* id.endsWith(`#${canvasId}`) || id.endsWith(`/${canvasId}`): an entry
\* without the identifier makes the callback throw
RECURSIVE FindByFragment(_, _, _)
FindByFragment(entries, key, canvasId) ==
    IF entries = <<>> THEN Value(<<>>)
    ELSE IF StrOf(Head(entries), key) = canvasId THEN Value(<<Head(entries)>>)
    ELSE IF ~Has(Head(entries), key) THEN Thrown("Cannot read properties of undefined")
    ELSE IF EndsWithFragment(StrOf(Head(entries), key), canvasId)
         THEN Value(<<Head(entries)>>)
    ELSE FindByFragment(Tail(entries), key, canvasId)

\* processDirectCanvasData of viewer.js: the annotations stay empty
processCanvasDirect(canvas, probe) ==
    LET info == extractImageInfoOfViewer(canvas, probe)
    IN IF info.threw THEN info ELSE Value(Merge(info.value, <<>>))

\* extractCanvasFromManifest of viewer.js; frag is originalUrl.split('#')[1],
\* undefined for a URL without fragment
extractCanvasByFragment(manifest, frag, probe) ==
    LET key == IF Has(manifest, "items") THEN "id" ELSE "@id"
        entries == IF Has(manifest, "items") THEN manifest.items
                   ELSE IF HasV2Canvases(manifest)
                        THEN manifest.sequences[1].canvases
                   ELSE <<>>
        found == IF TruthyStr(frag) THEN FindByFragment(entries, key, frag)
                 ELSE Value(<<>>)
    IN IF found.threw THEN found
       ELSE IF found.value # <<>> THEN processCanvasDirect(found.value[1], probe)
       ELSE IF Len(entries) > 0 THEN processCanvasDirect(entries[1], probe)
       ELSE Thrown("No canvas found in manifest")

\* processCanvasData of viewer.js: the target canvas, then every annotation
processCanvasData(data, target, probe, lineReplies) ==
    IF target.kind = "neterr" THEN Thrown("Failed to fetch")
    ELSE IF ~target.ok THEN Thrown("Failed to fetch target data")
    ELSE IF ~target.parses THEN Thrown("Unexpected token")
    ELSE LET info == extractImageInfoOfViewer(target.data, probe)
         IN IF info.threw THEN info
            ELSE IF ~Has(data, "items") THEN Thrown("Cannot read properties of undefined")
            ELSE Value(Merge(info.value,
                   FilterNonNull([i \in 1..Len(data.items) |->
                       IF FetchFails(lineReplies[i]) THEN Null
                       ELSE lineOf(lineReplies[i].data)])))

\* fetchCanvasData: what it comes to, and the function it handed the
\* document to
fetchCanvasData(frag, web) ==
    IF web.first.kind = "neterr" THEN [route |-> "none", outcome |-> Thrown("Failed to fetch")]
    ELSE IF ~web.first.ok
         THEN [route |-> "none", outcome |-> Thrown("Failed to fetch data from URL")]
    ELSE IF ~web.first.parses THEN [route |-> "none", outcome |-> Thrown("Unexpected token")]
    ELSE IF isManifestDataByShape(web.first.data)
         THEN [route |-> "extractCanvasFromManifest",
               outcome |-> extractCanvasByFragment(web.first.data, frag, web.probe)]
    ELSE IF TruthyStr(StrOf(web.first.data, "target"))
         THEN [route |-> "processCanvasData",
               outcome |-> processCanvasData(web.first.data, web.target, web.probe, web.lines)]
    ELSE IF Has(web.first.data, "images")
         THEN [route |-> "processDirectCanvasData",
               outcome |-> processCanvasDirect(web.first.data, web.probe)]
    ELSE [route |-> "none",
          outcome |-> Thrown("Unrecognized data format - not a valid IIIF manifest or canvas")]

\* the fragment of the canvas URL: none, empty, naming a canvas, naming none
Fragments == {UNDEF, "", "c1", "c2", "c9"}

\* the documents a canvas URL can serve: manifests, canvases, page objects
\* with and without an items list, and a document that is none of these
CanvasUrlManifests ==
    {ManifestV3(ids) : ids \in {<<>>, <<"c1", "c2">>, <<"c3", "https://h/m/c2">>}}
    \cup {ManifestV2(ids) : ids \in {<<>>, <<"c1", "c2">>, <<"c2", "https://h/m#c1">>}}
    \cup {[type |-> "Manifest"]}
CanvasUrlPages ==
    {[target |-> "t", items |-> refs] :
        refs \in {<<>>, <<[id |-> "a1"]>>, <<[id |-> "a1"], [id |-> "a2"]>>}}
    \cup {[target |-> "t"]}
\* documents whose target is the empty string: alone, and on a v2 canvas
CanvasUrlEmptyTargets ==
    {[target |-> ""], [target |-> ""] @@ MkCanvas("v2", "@id", "c2", SmallDims, <<"img2">>)}
CanvasUrlDocs ==
    CanvasUrlManifests \cup CanvasDocs \cup CanvasUrlPages \cup CanvasUrlEmptyTargets
    \cup {[label |-> "x"]}
TargetCanvasDoc == MkCanvas("v3", "id", "c2", SmallDims, <<"img2">>)

CanvasUrlWebs ==
    UNION {
      {[first |-> f, target |-> t, probe |-> q, lines |-> ls] :
          t \in IF f.kind = "http" /\ f.ok /\ f.parses /\ Has(f.data, "target")
                THEN {NetErr} \cup Served({TargetCanvasDoc})
                ELSE {HttpFail},
          q \in ViewProbes \cup {NoJson("image/jpeg"),
                                  HttpOk("application/ld+json", TRUE, ViewService)},
          ls \in IF f.kind = "http" /\ f.ok /\ f.parses /\ Has(f.data, "target")
                    /\ Has(f.data, "items")
                 THEN [1..Len(f.data.items) -> Served({ItemSel})]
                 ELSE {NoLines}} :
      f \in {NetErr, NoJson("application/json")} \cup Served(CanvasUrlDocs)}

\* the canvas URL handed to loadCanvas: none, or one with the fragment frag
UrlWithFragment(url, frag) == [url |-> url, frag |-> frag]
CanvasUrls ==
    {UrlWithFragment("", UNDEF)} \cup {UrlWithFragment("https://h/canvas", f) : f \in Fragments}

\* call l of loadCanvas; the calls overlap as the messages arrive
CanvasCall(l) == canvasLoad.calls[l]
\* loadCanvas returns: its locals are gone
CanvasCallEnds(l, to) ==
    canvasLoad' = [canvasLoad EXCEPT !.calls[l] = [pc |-> to]]

\* loadCanvas calls fetchCanvasData(canvasUrl): the URL is fetched
FetchCanvasData(l, frag) ==
    canvasLoad' = [canvasLoad EXCEPT !.calls[l] = [pc |-> "fetching", frag |-> frag]]

\* loadCanvas up to the await of fetchCanvasData
LoadCanvas(l, canvasUrl) ==
    /\ CanvasCall(l).pc = "idle"
    /\ \A k \in 1..(l - 1) : CanvasCall(k).pc # "idle"
    /\ IF ~TruthyStr(canvasUrl.url)
       THEN /\ container' = showError("No canvas URL provided")
            /\ CanvasCallEnds(l, "failed")
       ELSE /\ container' = showLoading
            /\ FetchCanvasData(l, canvasUrl.frag)

\* what fetchCanvasData comes to on a URL with fragment frag, for each way
\* its fetches can be answered; computed once for each fragment
CanvasSettlements ==
    [frag \in Fragments |->
        {[frag |-> frag, web |-> web] @@ fetchCanvasData(frag, web) : web \in CanvasUrlWebs}]

\* fetchCanvasData of call l returns or throws, r telling what its fetches
\* were answered and what it came to; on a result, renderImage up to the
\* image's load, else the catch of loadCanvas (the message is
\* error.message).  last is history: the call of fetchCanvasData that
\* settled last
CanvasDataSettles(l, r) ==
    /\ CanvasCall(l).pc = "fetching"
    /\ IF r.outcome.threw
       THEN /\ container' = showError(r.outcome.msg)
            /\ canvasLoad' = [canvasLoad EXCEPT !.calls[l] = [pc |-> "failed"],
                                                !.last = r]
       ELSE /\ container' = renderImage(l, r.outcome.value.imgUrl)
            /\ canvasLoad' = [canvasLoad EXCEPT
                                 !.calls[l] = [pc |-> "image", data |-> r.outcome.value],
                                 !.last = r]

\* img.onload: renderAnnotations, and loadCanvas returns
CanvasImageLoaded(l) ==
    /\ CanvasCall(l).pc = "image"
    /\ LET data == CanvasCall(l).data
       IN IF ParseThrows(data.annotations)
          THEN /\ container' = showError("target.replace is not a function")
               /\ CanvasCallEnds(l, "failed")
          ELSE /\ container' = [container EXCEPT
                                   !.boxes = renderAnnotations(container.boxes, l, data)]
               /\ CanvasCallEnds(l, "done")

\* img.onerror: renderImage rejects, the catch of loadCanvas
CanvasImageError(l) ==
    /\ CanvasCall(l).pc = "image"
    /\ container' = showError("Failed to load image")
    /\ CanvasCallEnds(l, "failed")

CanvasRequested ==
    /\ \E l \in Loads, canvasUrl \in CanvasUrls : LoadCanvas(l, canvasUrl)
    /\ UNCHANGED <<resolverVars, xywh, loads, posted, location, hist, parked, sizing>>
CanvasSettles ==
    /\ \E l \in Loads :
          /\ CanvasCall(l).pc = "fetching"
          /\ \E r \in CanvasSettlements[CanvasCall(l).frag] : CanvasDataSettles(l, r)
    /\ UNCHANGED <<resolverVars, xywh, loads, posted, location, hist, parked, sizing>>
CanvasImageLoads ==
    /\ \E l \in Loads : CanvasImageLoaded(l)
    /\ UNCHANGED <<resolverVars, xywh, loads, posted, location, hist, parked, sizing>>
CanvasImageFails ==
    /\ \E l \in Loads : CanvasImageError(l)
    /\ UNCHANGED <<resolverVars, xywh, loads, posted, location, hist, parked, sizing>>

NextCanvas ==
    \/ CanvasRequested
    \/ CanvasSettles
    \/ CanvasImageLoads
    \/ CanvasImageFails
    \/ Clears

SpecCanvas == Init /\ [][NextCanvas]_vars

----------------------------------------------------------------------------
(* Two calls of fetchPageViewerData in one thread.  Everything a call       *)
(* reads and writes is a local of its own invocation, so a second call has  *)
(* a frame of its own; the event loop passes control from one call to the   *)
(* other only where the running call awaits a fetch, has settled or has not *)
(* begun.                                                                   *)

\* the locals of the call that runs
Frame ==
    [pc |-> pc, args |-> args, materialized |-> materialized,
     targetCanvas |-> targetCanvas, canvasInfo |-> canvasInfo, lines |-> lines,
     inflight |-> inflight, log |-> log, replies |-> replies, result |-> result,
     error |-> error]

\* the locals of a call that has not begun
FreshFrame ==
    [pc |-> "idle",
     args |-> [canvas |-> NoRef, manifest |-> NoRef, annotationPage |-> NoRef],
     materialized |-> [canvas |-> Null, manifest |-> Null, annotationPage |-> Null],
     targetCanvas |-> Null, canvasInfo |-> Null, lines |-> <<>>, inflight |-> {},
     log |-> <<>>, replies |-> <<>>, result |-> Null, error |-> ""]

\* the running call is at an await, or is not running at all
AtFetch == pc \in {"idle", "resolved", "rejected"} \/ inflight # {}

\* getSpecificTypeData(args[which]) settles without a fetch: the reference is
\* an object or a string that is no URL, or the canvas is missing; the
\* promise it returns is settled already, and the await of it hands control
\* back all the same
SettlesWithoutFetch(which) ==
    CASE args[which].kind = "none" -> which = "canvas"
      [] args[which].kind = "str" -> ~isValidUrl(args[which].str)
      [] args[which].kind = "obj" -> TRUE

\* the running call is at an await, of a fetch or of a promise settled
\* already, or is not running at all
AtAwait == AtFetch \/ (pc \in Slots /\ SettlesWithoutFetch(pc))

\* the frame that takes over
Other == IF parked = Null THEN FreshFrame ELSE parked

\* a variant in which the target canvas is a field of the service, shared by
\* the calls
SwitchSharingTargetCanvas ==
    /\ AtAwait
    /\ parked' = Frame
    /\ pc' = Other.pc
    /\ args' = Other.args
    /\ materialized' = Other.materialized
    /\ canvasInfo' = Other.canvasInfo
    /\ lines' = Other.lines
    /\ inflight' = Other.inflight
    /\ log' = Other.log
    /\ replies' = Other.replies
    /\ result' = Other.result
    /\ error' = Other.error
    /\ UNCHANGED <<targetCanvas, xywh, viewerVars, canvasLoad, sizing>>

\* control passes from the running call to the other one
Switch ==
    /\ AtAwait
    /\ parked' = Frame
    /\ pc' = Other.pc
    /\ args' = Other.args
    /\ materialized' = Other.materialized
    /\ targetCanvas' = Other.targetCanvas
    /\ canvasInfo' = Other.canvasInfo
    /\ lines' = Other.lines
    /\ inflight' = Other.inflight
    /\ log' = Other.log
    /\ replies' = Other.replies
    /\ result' = Other.result
    /\ error' = Other.error
    /\ UNCHANGED <<xywh, viewerVars, canvasLoad, sizing>>

\* getSpecificTypeData(type), r the response to its fetch when it issues one
getSpecificTypeData(type, r) ==
    IF type.kind = "none" THEN Thrown("No canvas/manifest/annotationPage/annotation provided")
    ELSE IF type.kind = "str" /\ isValidUrl(type.str)
         THEN IF r.kind = "neterr" THEN Thrown("Failed to fetch")
              ELSE IF ~r.ok
                   THEN Thrown("Failed to fetch canvas/manifest/annotationPage/annotation data from URL")
              ELSE IF ~r.parses THEN Thrown("Unexpected token")
              ELSE Value(r.data)
    ELSE IF type.kind = "obj" THEN Value(type.obj)
    ELSE Thrown("Invalid canvas/manifest/annotationPage/annotation format")

\* the number of fetches getSpecificTypeData(type) issues
FetchesOf(type) == IF type.kind = "str" /\ isValidUrl(type.str) THEN 1 ELSE 0

\* processDirectCanvasData(canvas, page), rs the responses to its fetches
DirectAlone(canvas, page, rs) ==
    IF MissingImageData(canvas) THEN Thrown("Missing required image data in IIIF canvas")
    ELSE LET p == processIIIFImageUrl(ImgUrlOf(canvas), canvas.width, canvas.height, rs[1])
         IN IF p.threw THEN Thrown("Error processing IIIF image URL")
            ELSE Value(Merge(CanvasInfoOf(canvas, p.url), AnnotationsOfPage(page)))

\* processPageData(data), rs the responses to its fetches: of the target, of
\* the image, of each annotation
PagedAlone(data, rs) ==
    IF rs[1].kind = "neterr" THEN Thrown("Failed to fetch")
    ELSE IF ~rs[1].ok THEN Thrown("Failed to fetch target data")
    ELSE IF ~rs[1].parses THEN Thrown("Unexpected token")
    ELSE IF MissingImageData(rs[1].data)
         THEN Thrown("Missing required image data in IIIF canvas")
    ELSE LET c == rs[1].data
             p == processIIIFImageUrl(ImgUrlOf(c), c.width, c.height, rs[2])
         IN IF p.threw THEN Thrown("Error processing IIIF image URL")
            ELSE Value(Merge(CanvasInfoOf(c, p.url),
                             FilterNonNull([i \in 1..Len(data.items) |-> LineOf(rs[2 + i])])))

\* the body of fetchPageViewerData after its three awaits
DispatchAlone(c, m, p, rs) ==
    IF m # Null
    THEN IF FindTargetCanvas(m, c) = <<>> THEN Thrown("No canvas found in manifest")
         ELSE DirectAlone(FindTargetCanvas(m, c)[1],
                          IF p # Null THEN p ELSE [items |-> <<>>], rs)
    ELSE IF p # Null THEN DirectAlone(c, p, rs)
    ELSE IF IsPageShape(c) THEN PagedAlone(c, rs)
    ELSE DirectAlone(c, [items |-> <<>>], rs)

\* what follows the first n entries of rs
After(rs, n) == [i \in 1..(Len(rs) - n) |-> rs[n + i]]

\* fetchPageViewerData(canvas, manifest, annotationPage) run from call to
\* settlement with nothing in between: what it comes to when rs are the
\* responses to its fetches, in the order it issues them
fetchPageViewerData(a, rs) ==
    LET n1 == FetchesOf(a.canvas)
        n2 == n1 + FetchesOf(a.manifest)
        n3 == n2 + FetchesOf(a.annotationPage)
        c == getSpecificTypeData(a.canvas, rs[1])
        m == IF a.manifest.kind = "none" THEN Value(Null)
             ELSE getSpecificTypeData(a.manifest, rs[n2])
        p == IF a.annotationPage.kind = "none" THEN Value(Null)
             ELSE getSpecificTypeData(a.annotationPage, rs[n3])
    IN IF c.threw THEN c
       ELSE IF m.threw THEN m
       ELSE IF p.threw THEN p
       ELSE DispatchAlone(c.value, m.value, p.value, After(rs, n3))

\* the calls and the responses of the two-call model
PairPage ==
    [target |-> TargetUrl, items |-> <<[id |-> <<"https://h/a1">>, target |-> JStr(<<"c", "1">>)]>>]
PairCalls ==
    {<<StrRef(CanvasUrl), NoRef, NoRef>>,
     <<StrRef(BareId), NoRef, NoRef>>,
     <<ObjRef(MkCanvas("v3", "id", "c2", SmallDims, <<"img2">>)), StrRef(ManifestUrl), NoRef>>,
     <<ObjRef(MkCanvas("v2", "@id", "c2", SmallDims, <<"img2">>)), NoRef,
       ObjRef([type |-> "AnnotationPage", items |-> <<[id |-> "a2", target |-> JStr(Sel2)]>>])>>}
PairDocsAt(which) ==
    CASE which = "canvas" -> {MkCanvas("v3", "id", "c1", FullDims, <<"img1">>), PairPage}
      [] which = "manifest" -> {ManifestV3(<<"c1", "c2">>), ManifestV3(<<>>)}
      [] which = "annotationPage" -> {[type |-> "AnnotationPage", items |-> <<>>]}
      [] which = "target" -> {MkCanvas("v3", "id", "c1", HalfDims, <<"img1">>)}
      [] which = "line" -> {[id |-> "a1", target |-> JStr(Sel2)]}
PairResponses(which) ==
    {NetErr, HttpFail} \cup {HttpOk("application/json", TRUE, d) : d \in PairDocsAt(which)}
PairProbes == {NoJson("image/jpeg"), HttpOk("application/json", TRUE, ViewService)}

PairStart ==
    /\ pc = "idle"
    /\ \E c \in PairCalls : Call(c[1], c[2], c[3])
    /\ UNCHANGED <<viewerVars, parked, canvasLoad, sizing>>
PairArrive ==
    /\ pc \in Slots /\ inflight # {}
    /\ \E r \in PairResponses(pc) : MaterializeResponse(pc, r)
    /\ UNCHANGED <<viewerVars, parked, canvasLoad, sizing>>
PairTargetArrives ==
    /\ pc = "target"
    /\ \E r \in PairResponses("target") : TargetResponse(r)
    /\ UNCHANGED <<viewerVars, parked, canvasLoad, sizing>>
PairProbeArrives ==
    /\ pc = "probe"
    /\ \E r \in PairProbes : ProbeResponse(r)
    /\ UNCHANGED <<viewerVars, parked, canvasLoad, sizing>>
PairLineArrives ==
    /\ pc = "lines"
    /\ \E i \in 1..Len(lines), r \in PairResponses("line") : LineResponse(i, r)
    /\ UNCHANGED <<viewerVars, parked, canvasLoad, sizing>>

NextPair ==
    \/ PairStart
    \/ Step
    \/ PairArrive
    \/ ExtractCanvasFromManifest
    \/ ProcessDirectCanvasData
    \/ ProcessPageData
    \/ PairTargetArrives
    \/ PairProbeArrives
    \/ PairLineArrives
    \/ Switch

SpecPair == Init /\ [][NextPair]_vars

----------------------------------------------------------------------------
(* constructIIIFImageUrl on its own: a service description and the maxima a *)
(* canvas declares are drawn, then the URL is constructed.                  *)

\* the largest dimension drawn
MaxDim == 9
Dims == 1..MaxDim

\* a service description with the native size w by h and nothing else
PlainService(w, h) == [type |-> "ImageService3", id |-> "svc", width |-> w, height |-> h]

InitSizing ==
    /\ InitResolver /\ xywh = NoXYWH /\ InitViewer /\ parked = Null /\ canvasLoad = NoCanvasLoads
    /\ \E w \in Dims, h \in Dims, maxWidth \in Dims, maxHeight \in Dims :
          sizing = [infoData |-> PlainService(w, h), maxWidth |-> maxWidth,
                    maxHeight |-> maxHeight, returned |-> Null]

Construct ==
    /\ sizing.returned = Null
    /\ sizing' = [sizing EXCEPT
                    !.returned = constructIIIFImageUrl(sizing.infoData, sizing.maxWidth,
                                                       sizing.maxHeight)]
    /\ UNCHANGED <<resolverVars, xywh, viewerVars, parked, canvasLoad>>

SpecSizing == InitSizing /\ [][Construct]_vars

----------------------------------------------------------------------------
(* Properties *)

\* the canvas collection of a manifest: v3 items or v2 sequences[0].canvases
Collection(m) ==
    IF Has(m, "items") THEN m.items
    ELSE IF HasV2Canvases(m) THEN m.sequences[1].canvases
    ELSE <<>>

\* entry e has the identifier cid, under id or under @id
HasIdentifier(e, cid) ==
    /\ TruthyStr(cid)
    /\ \/ Has(e, "id") /\ e.id = cid
       \/ Has(e, "@id") /\ e["@id"] = cid

SuppliedId == CanvasIdOf(canvasData)
SomeEntryMatches ==
    \E i \in 1..Len(Collection(manifestData)) :
        HasIdentifier(Collection(manifestData)[i], SuppliedId)

\* a canvas with an image identifier and both dimensions
Complete(c) == ImgUrlOf(c) # NoUrl /\ TruthyNum(c, "width") /\ TruthyNum(c, "height")

Fetched(kind) == {i \in 1..Len(log) : log[i].kind = kind}
Answered(i) == replies[i] # Pending
\* the fetch failed: unreachable, or a non-success status
IsFailure(r) == r # Pending /\ (r.kind = "neterr" \/ ~r.ok)
\* the URL answered with a parsable image-service description
ServesDescription(r) ==
    r # Pending /\ r.kind = "http" /\ r.ok /\ r.parses /\ r.data \in InfoDocs
HasBase(d) == Has(d, "@id") \/ Has(d, "id")
IsSizedRequest(url) ==
    /\ Len(url) = 5
    /\ url[2] = "full" /\ url[4] = "0" /\ url[5] = "default.jpg"
    /\ url[3][1] > 0 /\ url[3][2] > 0

\* C1: a result carries the target canvas's declared width and height
\* exactly, whatever the probe answered and whatever size the image URL
\* names; and a target canvas with image and dimensions is never rejected
C1_DeclaredDimensions ==
    /\ pc = "resolved" =>
         /\ Complete(targetCanvas)
         /\ result.imgWidth = targetCanvas.width
         /\ result.imgHeight = targetCanvas.height
    /\ (pc = "rejected" /\ targetCanvas # Null) => ~Complete(targetCanvas)

C1_Witness ==
    /\ pc = "resolved"
    /\ Has(targetCanvas, "images")
    /\ IsSizedRequest(result.imgUrl)
    /\ result.imgUrl[3] # <<result.imgWidth, result.imgHeight>>

\* C2: with a manifest none of whose canvases has the supplied canvas's
\* identifier, the result is built from the first canvas of the collection,
\* and "No canvas found in manifest" is not raised
C2_FallbackToFirst ==
    (manifestData # Null /\ Collection(manifestData) # <<>> /\ ~SomeEntryMatches) =>
        /\ error # "No canvas found in manifest"
        /\ targetCanvas # Null => targetCanvas = Collection(manifestData)[1]
        /\ pc = "resolved" =>
             /\ result.imgWidth = Collection(manifestData)[1].width
             /\ result.imgHeight = Collection(manifestData)[1].height

C2_Witness ==
    /\ pc = "resolved"
    /\ manifestData # Null
    /\ Len(Collection(manifestData)) >= 2
    /\ TruthyStr(SuppliedId)
    /\ ~SomeEntryMatches
    /\ targetCanvas = Collection(manifestData)[1]

\* C3: with a manifest that has a canvas with the supplied canvas's
\* identifier, the target canvas is an entry with that identifier and the
\* result carries that entry's dimensions
C3_MatchingEntrySelected ==
    (manifestData # Null /\ SomeEntryMatches) =>
        /\ targetCanvas # Null =>
             \E i \in 1..Len(Collection(manifestData)) :
                 /\ Collection(manifestData)[i] = targetCanvas
                 /\ HasIdentifier(targetCanvas, SuppliedId)
        /\ pc = "resolved" =>
             \E i \in 1..Len(Collection(manifestData)) :
                 /\ HasIdentifier(Collection(manifestData)[i], SuppliedId)
                 /\ result.imgWidth = Collection(manifestData)[i].width
                 /\ result.imgHeight = Collection(manifestData)[i].height

C3_Witness ==
    /\ pc = "resolved"
    /\ manifestData # Null
    /\ HasV2Canvases(manifestData)
    /\ Has(canvasData, "id")
    /\ Len(Collection(manifestData)) >= 2
    /\ ~HasIdentifier(Collection(manifestData)[1], SuppliedId)
    /\ targetCanvas = Collection(manifestData)[2]

\* C4: a target canvas without width or without height (absent or 0) is
\* rejected before the probe, with no result; and a result, when there is
\* one, has all four fields
C4_MissingDimensionRejects ==
    /\ (targetCanvas # Null
          /\ (~TruthyNum(targetCanvas, "width") \/ ~TruthyNum(targetCanvas, "height"))) =>
         /\ pc = "rejected"
         /\ result = Null
         /\ canvasInfo = Null
         /\ Fetched("probe") = {}
    /\ result # Null =>
         /\ DOMAIN result = {"imgUrl", "imgWidth", "imgHeight", "annotations"}
         /\ result.imgUrl # NoUrl
         /\ result.imgWidth > 0
         /\ result.imgHeight > 0

C4_Witness ==
    /\ pc = "rejected"
    /\ targetCanvas # Null
    /\ ImgUrlOf(targetCanvas) # NoUrl
    /\ Has(targetCanvas, "width")
    /\ ~Has(targetCanvas, "height")

\* C5: once the probe is answered, whatever the answer, extractImageInfo has
\* its value and the resolution is not rejected; after a failed fetch or a
\* non-success status the value is the image identifier itself
C5_NormalizeNeverFails ==
    \A i \in Fetched("probe") :
        Answered(i) =>
            /\ canvasInfo # Null
            /\ pc # "rejected"
            /\ IsFailure(replies[i]) => canvasInfo.imgUrl = log[i].url

C5_Witness ==
    /\ pc = "resolved"
    /\ \E i \in Fetched("probe") : replies[i] = HttpFail /\ result.imgUrl = log[i].url

\* C6 as stated: whenever the image identifier answers with a service
\* description, the returned image URL is a sized request and not the
\* identifier
C6_NeverDescriptionUrl ==
    pc = "resolved" =>
        \A i \in Fetched("probe") :
            ServesDescription(replies[i]) =>
                /\ result.imgUrl # log[i].url
                /\ IsSizedRequest(result.imgUrl)

\* C6 amended: the returned image URL is the sized request on the service's
\* base identifier when the answer has a JSON content type and is a
\* description with a base identifier (@id or id); in every other case it is
\* the image identifier unchanged
C6_SizedRequestWhenUsable ==
    pc = "resolved" =>
        \A i \in Fetched("probe") :
            IF /\ ServesDescription(replies[i])
               /\ replies[i].ctype \in JsonTypes
               /\ HasBase(replies[i].data)
            THEN /\ IsSizedRequest(result.imgUrl)
                 /\ result.imgUrl[1] = BaseUrlOf(replies[i].data)
            ELSE result.imgUrl = log[i].url

C6_Witness ==
    /\ pc = "resolved"
    /\ \E i \in Fetched("probe") :
          /\ ServesDescription(replies[i])
          /\ replies[i].ctype \in JsonTypes
          /\ ~Has(replies[i].data, "type")
          /\ ~Has(replies[i].data, "@context")
          /\ IsSizedRequest(result.imgUrl)

\* C7 as stated: "xywh=x,y,w,h" parses to the four numbers in that order,
\* and so does the same with the prefix "xywh=pixel:"
C7_BothPrefixesParse ==
    xywh.parsed # Null =>
        \A x \in XValues, y \in YValues, w \in WValues, h \in HValues :
            xywh.target \in {Selector(PlainPrefix, x, y, w, h),
                             Selector(PixelPrefix, x, y, w, h)} =>
                xywh.parsed = [x |-> Num(x), y |-> Num(y), w |-> Num(w), h |-> Num(h)]

\* C8: a failed fetch of the canvas, the manifest, the annotation page or the
\* target canvas rejects the resolution with no result; it is the last fetch
\* issued, and its URL was fetched once
C8_RequiredFetchFailureRejects ==
    \A i \in 1..Len(log) :
        (log[i].kind \in {"canvas", "manifest", "annotationPage", "target"}
           /\ IsFailure(replies[i])) =>
            /\ pc = "rejected"
            /\ result = Null
            /\ i = Len(log)
            /\ Cardinality({j \in 1..Len(log) : log[j].url = log[i].url}) = 1

C8_Witness ==
    /\ pc = "rejected"
    /\ Len(log) = 2
    /\ log[2].kind = "manifest"
    /\ replies[2] = HttpFail
    /\ ~IsFailure(replies[1])

\* C9 as stated: every failed fetch other than the probe rejects the
\* resolution
C9_OnlyProbeSwallowed ==
    \A i \in 1..Len(log) :
        (log[i].kind # "probe" /\ IsFailure(replies[i])) => pc = "rejected" /\ result = Null

\* the annotations of the per-annotation fetches that succeeded, in the
\* order of the items
IsParsed(r) == r # Pending /\ r.kind = "http" /\ r.ok /\ r.parses
KeptLines ==
    LET got == SelectSeq([k \in 1..Len(lines) |-> replies[LineIndex(k)]], IsParsed)
    IN [k \in 1..Len(got) |-> AnnotationOf(got[k].data)]

\* what does hold: the failure of the probe and of a per-annotation fetch is
\* swallowed, the latter dropping that annotation from the result; the
\* failure of every other fetch rejects the resolution
C9_ProbeAndLinesSwallowed ==
    /\ \A i \in 1..Len(log) :
          IsFailure(replies[i]) =>
              IF log[i].kind \in {"probe", "line"} THEN pc # "rejected"
              ELSE pc = "rejected" /\ result = Null
    /\ (pc = "resolved" /\ Paged) => result.annotations = KeptLines

C9_Witness ==
    /\ pc = "resolved"
    /\ Len(lines) = 2
    /\ Len(result.annotations) = 1
    /\ \E i \in Fetched("line") : IsFailure(replies[i])

\* C10: without an annotation page, or with one whose items list is empty,
\* the result of a canvas with image and dimensions has an empty annotation
\* list, and the resolution is not rejected
C10_NoAnnotationsIsEmptyList ==
    (~Paged /\ \/ args.annotationPage = NoRef
               \/ /\ annotationPageData # Null
                  /\ Has(annotationPageData, "items")
                  /\ annotationPageData.items = <<>>) =>
        /\ pc = "resolved" => result.annotations = <<>>
        /\ (targetCanvas # Null /\ Complete(targetCanvas)) => pc # "rejected"

C10_Witness ==
    /\ pc = "resolved"
    /\ annotationPageData # Null
    /\ Has(annotationPageData, "items")
    /\ annotationPageData.items = <<>>
    /\ Has(targetCanvas, "items")
    /\ result.annotations = <<>>

\* what the contract of an embedded annotation asks of item
HasSelectorValue(item) ==
    Has(item, "target") /\ Has(item.target, "selector") /\ Has(item.target.selector, "value")
ExpectedAnnotation(item) ==
    [target |-> IF HasSelectorValue(item) THEN JStr(item.target.selector.value)
                ELSE IF Has(item, "target") THEN item.target
                ELSE JUndef,
     text |-> IF Has(item, "body") /\ Has(item.body, "value") THEN item.body.value ELSE "",
     lineid |-> IF Has(item, "id") THEN item.id ELSE UNDEF]
PageSupplied == annotationPageData # Null /\ Has(annotationPageData, "items")

\* C11: when an annotation page is supplied, the result has one annotation
\* per entry of the page's items, in the same order, with target the
\* selector's value when there is one and the item's target otherwise, text
\* the body's value or "", lineid the item's own id; and no secondary fetch
\* (of a target canvas or of an annotation) was issued
C11_PageItemsBecomeAnnotations ==
    (pc = "resolved" /\ PageSupplied) =>
        /\ Len(result.annotations) = Len(annotationPageData.items)
        /\ \A i \in 1..Len(annotationPageData.items) :
               result.annotations[i] = ExpectedAnnotation(annotationPageData.items[i])
        /\ Fetched("line") = {}
        /\ Fetched("target") = {}

C11_Witness ==
    /\ pc = "resolved"
    /\ PageSupplied
    /\ Len(annotationPageData.items) = 2
    /\ HasSelectorValue(annotationPageData.items[1])
    /\ ~Has(annotationPageData.items[2], "body")
    /\ result.annotations[1].target = JStr(Sel1)
    /\ result.annotations[2].target = JStr(Sel2)
    /\ result.annotations[2].text = ""
    /\ result.annotations[2].lineid = "a2"

\* the answer to the probe of a resolution that got that far
ProbeReply == replies[CHOOSE i \in Fetched("probe") : TRUE]
\* the probe's answer is used to construct the image URL
UsableDescription ==
    /\ Fetched("probe") # {}
    /\ ServesDescription(ProbeReply)
    /\ ProbeReply.ctype \in JsonTypes
    /\ HasBase(ProbeReply.data)
AdvertisesSizes == Has(ProbeReply.data, "sizes") /\ ProbeReply.data.sizes # <<>>
\* the entries of sizes that meet or exceed the target t = <<width, height>>
Adequate(sizes, t) ==
    {i \in 1..Len(sizes) : sizes[i].width >= t[1] /\ sizes[i].height >= t[2]}
ComputedTarget == TargetSize(ProbeReply.data, targetCanvas.width, targetCanvas.height)

\* C12: with a sizes list, the size in the constructed URL is the first
\* entry, in list order, whose width and height both meet or exceed the
\* computed target, and the last entry when none does; for sizes
\* [{100,80},{1000,800}], native 1000x800 and maximum 500x400 it is 1000,800
C12_FirstAdequateSize ==
    (pc = "resolved" /\ UsableDescription /\ AdvertisesSizes) =>
        LET sizes == ProbeReply.data.sizes
            ok == Adequate(sizes, ComputedTarget)
            k == IF ok = {} THEN Len(sizes) ELSE CHOOSE i \in ok : \A j \in ok : i <= j
        IN /\ result.imgUrl[3] = <<sizes[k].width, sizes[k].height>>
           /\ (sizes = SizesList /\ targetCanvas.width = 500 /\ targetCanvas.height = 400) =>
                  result.imgUrl[3] = <<1000, 800>>

\* the example of C12
C12_Witness ==
    /\ pc = "resolved" /\ UsableDescription /\ AdvertisesSizes
    /\ ProbeReply.data.sizes = SizesList
    /\ ProbeReply.data.width = 1000 /\ ProbeReply.data.height = 800
    /\ targetCanvas.width = 500 /\ targetCanvas.height = 400
    /\ ComputedTarget = <<500, 400>>
    /\ result.imgUrl[3] = <<1000, 800>>

\* two more cases of C12 that are reached: several adequate entries out of
\* order, and no adequate entry
C12_ReachedUnsorted ==
    /\ pc = "resolved" /\ UsableDescription /\ AdvertisesSizes
    /\ ProbeReply.data.sizes = UnsortedSizes
    /\ Cardinality(Adequate(UnsortedSizes, ComputedTarget)) = 2
    /\ result.imgUrl[3] = <<1000, 800>>

C12_ReachedNoneAdequate ==
    /\ pc = "resolved" /\ UsableDescription /\ AdvertisesSizes
    /\ ProbeReply.data.sizes = SmallSizes
    /\ Adequate(SmallSizes, ComputedTarget) = {}
    /\ result.imgUrl[3] = <<200, 160>>

\* the manifest of the resolution has no canvas: its collection is empty, or
\* it has no collection
ManifestWithoutCanvas == manifestData # Null /\ Collection(manifestData) = <<>>
AllFetchesSucceeded ==
    \A i \in 1..Len(log) : replies[i] # Pending /\ ~IsFailure(replies[i]) /\ replies[i].parses

\* C13: with a manifest whose canvas collection is empty or missing, resolve
\* never returns a result and never issues a probe: once the references are
\* materialized it rejects, with "No canvas found in manifest", rather than
\* falling back to the supplied canvas
C13_EmptyManifestRejects ==
    ManifestWithoutCanvas =>
        /\ pc \in {"annotationPage", "dispatch", "rejected"}
        /\ result = Null
        /\ Fetched("probe") = {}
        /\ targetCanvas = Null
        /\ (pc = "rejected" /\ AllFetchesSucceeded) => error = "No canvas found in manifest"

C13_Witness ==
    /\ ManifestWithoutCanvas
    /\ Has(manifestData, "items")
    /\ pc = "rejected"
    /\ error = "No canvas found in manifest"
    /\ Complete(canvasData)

\* the other case of C13 that is reached: a manifest with no collection
C13_ReachedNoCollection ==
    /\ ManifestWithoutCanvas
    /\ ~Has(manifestData, "items") /\ ~Has(manifestData, "sequences")
    /\ pc = "rejected"
    /\ error = "No canvas found in manifest"
    /\ Complete(canvasData)

\* the fetches of kind that are issued, and those still without a response
Outstanding(kind) == {i \in Fetched(kind) : replies[i] = Pending}
BothByUrl ==
    /\ args.canvas.kind = "str" /\ isValidUrl(args.canvas.str)
    /\ args.manifest.kind = "str" /\ isValidUrl(args.manifest.str)

\* C14 as stated: with canvas and manifest both given by URL, the manifest's
\* fetch does not wait for the canvas's response: once the canvas's fetch is
\* issued, so is the manifest's
C14_FetchesNotChained ==
    (BothByUrl /\ Fetched("canvas") # {}) => Fetched("manifest") # {}

\* what the code does instead: the manifest's fetch is issued only after the
\* canvas's response, and the two are never outstanding together
C14_CodeChainsFetches ==
    /\ Fetched("manifest") # {} => \A i \in Fetched("canvas") : ~IsFailure(replies[i]) /\ Answered(i)
    /\ Outstanding("canvas") = {} \/ Outstanding("manifest") = {}

NoneInProgress == \A l \in Loads : loads[l].pc \in {"idle", "done", "failed"}
Done == {l \in Loads : loads[l].pc = "done"}
Failed == {l \in Loads : loads[l].pc = "failed"}
PageVisible == container.img # NoImage

\* C15 as stated: once two loads have finished, the visible page is what the
\* load that resolved last produced: its image and its overlay boxes, and
\* no box of the other load
C15_LastResolvedWins ==
    (NoneInProgress /\ Cardinality(Done) >= 2) =>
        /\ PageVisible
        /\ container.img.load = hist.load
        /\ \A i \in 1..Len(container.boxes) : container.boxes[i].load = hist.load
        /\ Len(container.boxes) = Len(BoxesFrom(hist.load, hist.data, 1))

\* C16 as stated: after a failed load the page displayed before is still
\* there: once a load has shown its page, a failure of another load never
\* leaves the viewer without a page
C16_FailurePreservesPage ==
    (NoneInProgress /\ Failed # {} /\ Done # {}) => PageVisible

StartsLoading(l) == loads[l].pc = "idle" /\ loads'[l].pc = "fetching"
Fails(l) == loads[l].pc # "failed" /\ loads'[l].pc = "failed"

\* C16 amended: a load that starts replaces whatever the container showed by
\* the loading message, and a load that fails replaces whatever the
\* container shows by an error message: neither leaves an image or an
\* overlay box, so the page displayed before is not preserved
C16_FailureShowsErrorOnly ==
    [][\A l \in Loads :
          /\ StartsLoading(l) =>
               container'.msg = "loading" /\ ~PageVisible' /\ container'.boxes = <<>>
          /\ Fails(l) =>
               container'.msg = "error" /\ ~PageVisible' /\ container'.boxes = <<>>]_vars

\* a load failed after another load had displayed its page
C16_Witness ==
    /\ loads[1].pc = "done"
    /\ loads[2].pc = "failed"
    /\ hist # Null /\ hist.load = 1
    /\ container.msg = "error"
    /\ ~PageVisible

\* the message a selection of box i is to post
ExpectedMessage(i) ==
    [type |-> "RETURN_LINE_ID",
     lineid |-> container.boxes[i].built.anno.lineid,
     lineIndex |-> container.boxes[i].built.position]
Selects(i) == Click(i) \/ Keydown(i, "Enter") \/ Keydown(i, " ")

\* C18: a selection of an overlay box by click, Enter or Space posts exactly
\* one RETURN_LINE_ID message, with the lineid of the annotation the box was
\* built from and, as lineIndex, that annotation's position in the list the
\* resolution returned; and nothing else posts a message
C18_SelectionPostsOnce ==
    [][/\ \A i \in 1..Len(container.boxes) :
             Selects(i) => posted' = Append(posted, ExpectedMessage(i))
       /\ posted' # posted =>
             \E i \in 1..Len(container.boxes) : posted' = Append(posted, ExpectedMessage(i))]_vars

\* the box of the second annotation of a list whose first has no target
C18_Witness ==
    /\ Len(posted) = 1
    /\ posted[1] = [type |-> "RETURN_LINE_ID", lineid |-> "a1", lineIndex |-> 1]
    /\ \E i \in 1..Len(container.boxes) :
          /\ container.boxes[i].clicked
          /\ container.boxes[i].built.position = 1
          /\ container.boxes[i].built.anno.lineid = "a1"

\* the entries of the description's profile that declare both limits
Limits(d) ==
    IF Has(d, "profile")
    THEN {i \in 1..Len(d.profile) : Has(d.profile[i], "maxWidth") /\ Has(d.profile[i], "maxHeight")}
    ELSE {}

\* C19 as stated: when the description's profile declares maxWidth and
\* maxHeight, the width and height in the constructed image URL do not
\* exceed them, with or without a sizes list
C19_ProfileLimitsRespected ==
    (pc = "resolved" /\ UsableDescription) =>
        \A i \in Limits(ProbeReply.data) :
            /\ result.imgUrl[3][1] <= ProbeReply.data.profile[i].maxWidth
            /\ result.imgUrl[3][2] <= ProbeReply.data.profile[i].maxHeight

\* what holds of the code: the limits are respected when the description
\* advertises no size
C19_LimitsRespectedWithoutSizes ==
    (pc = "resolved" /\ UsableDescription /\ ~AdvertisesSizes) =>
        \A i \in Limits(ProbeReply.data) :
            /\ result.imgUrl[3][1] <= ProbeReply.data.profile[i].maxWidth
            /\ result.imgUrl[3][2] <= ProbeReply.data.profile[i].maxHeight



\* fetchCanvasData settled on a document that arrived and parsed
LastFetch == canvasLoad.last
CanvasDocArrived ==
    /\ LastFetch # Null
    /\ LastFetch.web.first.kind = "http"
    /\ LastFetch.web.first.ok
    /\ LastFetch.web.first.parses
CanvasDoc == LastFetch.web.first.data

\* a canvas: v3 with an annotation page of paintings in items, or v2 with images
IsCanvasDocument(d) ==
    /\ ~Has(d, "target")
    /\ \/ Has(d, "items") /\ Len(d.items) > 0 /\ StrOf(d.items[1], "type") = "AnnotationPage"
       \/ Has(d, "images") /\ ~Has(d, "sequences") /\ ~Has(d, "items")

\* a page object: a target and an items list
IsPageDocument(d) == Has(d, "target") /\ Has(d, "items")

\* the result carries the image and the dimensions of canvas c
ShowsCanvas(o, c) ==
    /\ ~o.threw
    /\ o.value.imgWidth = c.width
    /\ o.value.imgHeight = c.height
    /\ o.value.imgUrl = processIIIFImageUrlOfViewer(ImgUrlOf(c), c.width, c.height,
                                                    LastFetch.web.probe).url

\* C20: fetchCanvasData handles the fetched document as what it is: a canvas
\* document with complete image data yields its own image and dimensions, a
\* page object with target and items whose target canvas arrives yields that
\* canvas with one annotation for each item fetched, and neither of the two
\* is handed to extractCanvasFromManifest
C20_HandledAsWhatItIs ==
    CanvasDocArrived =>
        /\ IsCanvasDocument(CanvasDoc) /\ ~MissingImageData(CanvasDoc)
             => ShowsCanvas(LastFetch.outcome, CanvasDoc)
        /\ IsPageDocument(CanvasDoc) /\ ~FetchFails(LastFetch.web.target)
             => /\ ShowsCanvas(LastFetch.outcome, LastFetch.web.target.data)
                /\ Len(LastFetch.outcome.value.annotations)
                     = Cardinality({i \in 1..Len(CanvasDoc.items) :
                                       ~FetchFails(LastFetch.web.lines[i])})
        /\ IsCanvasDocument(CanvasDoc) \/ IsPageDocument(CanvasDoc)
             => LastFetch.route # "extractCanvasFromManifest"

\* what does hold: a tagged manifest with canvases and no fragment yields its
\* first canvas when that canvas is complete, and a v2 canvas document yields
\* its own image and dimensions
C20_ManifestsAndV2CanvasesHandled ==
    CanvasDocArrived =>
        /\ (/\ StrOf(CanvasDoc, "type") = "Manifest" \/ StrOf(CanvasDoc, "@type") = "sc:Manifest"
            /\ Len(Collection(CanvasDoc)) > 0
            /\ ~TruthyStr(LastFetch.frag)
            /\ ~MissingImageData(Collection(CanvasDoc)[1]))
             => ShowsCanvas(LastFetch.outcome, Collection(CanvasDoc)[1])
        /\ (/\ Has(CanvasDoc, "images") /\ ~Has(CanvasDoc, "items") /\ ~Has(CanvasDoc, "target")
            /\ ~MissingImageData(CanvasDoc))
             => ShowsCanvas(LastFetch.outcome, CanvasDoc)

\* a v3 canvas document with complete image data was handed to
\* extractCanvasFromManifest and rejected
C20_ReachedCanvasRejected ==
    /\ CanvasDocArrived
    /\ CanvasDoc = MkCanvas("v3", "id", "c1", FullDims, <<"img1">>)
    /\ LastFetch.route = "extractCanvasFromManifest"
    /\ LastFetch.outcome = Thrown("Missing required image data in IIIF canvas")

\* a manifest whose second canvas the fragment names by the end of its
\* identifier yields that canvas
C20_ReachedFragmentCanvas ==
    /\ CanvasDocArrived
    /\ CanvasDoc = ManifestV3(<<"c3", "https://h/m/c2">>)
    /\ LastFetch.frag = "c2"
    /\ ShowsCanvas(LastFetch.outcome, CanvasDoc.items[2])

\* a frame has settled
Settled(f) == f.pc \in {"resolved", "rejected"}

\* what the call of frame f came to
OutcomeOf(f) == IF f.pc = "resolved" THEN Value(f.result) ELSE Thrown(f.error)

\* C17: whatever the order in which two calls of fetchPageViewerData take
\* their steps, a call that has settled has come to what it comes to when it
\* runs alone with the same arguments and the same responses to its fetches
C17_InterleavedAsAlone ==
    /\ Settled(Frame) => OutcomeOf(Frame) = fetchPageViewerData(args, replies)
    /\ parked # Null /\ Settled(parked)
         => OutcomeOf(parked) = fetchPageViewerData(parked.args, parked.replies)

\* a call resolved while the other call, of another canvas, was suspended at
\* the fetch of its image
C17_Witness ==
    /\ parked # Null
    /\ parked.pc = "probe"
    /\ parked.inflight # {}
    /\ pc = "resolved"
    /\ targetCanvas # parked.targetCanvas
    /\ result.imgWidth # parked.targetCanvas.width

\* both calls resolved, to different results
C17_ReachedBothResolved ==
    /\ parked # Null
    /\ parked.pc = "resolved"
    /\ pc = "resolved"
    /\ parked.result # result

\* the size parameter of the URL that constructIIIFImageUrl returned
SizeParam == sizing.returned.url[3]
ClampWidth == Min(sizing.maxWidth, sizing.infoData.width)
ClampHeight == Min(sizing.maxHeight, sizing.infoData.height)

\* targetWidth / aspectRatio > targetHeight, on the clamped dimensions
TooWide ==
    DivExceeds(ClampWidth, sizing.infoData.width, sizing.infoData.height, ClampHeight)

\* C21: the target size never exceeds the canvas's maxima or the native size,
\* and exactly one dimension is recomputed while the other stays at its
\* clamp: the width, as floor(targetHeight * aspect), when
\* targetWidth / aspect > targetHeight, and the height, as
\* floor(targetWidth / aspect), otherwise
C21_TargetNeverUpscales ==
    sizing # Null /\ sizing.returned # Null =>
        /\ ~sizing.returned.threw
        /\ SizeParam[1] <= ClampWidth
        /\ SizeParam[2] <= ClampHeight
        /\ IF TooWide
           THEN /\ SizeParam[2] = ClampHeight
                /\ SizeParam[1] = MulFloor(ClampHeight, sizing.infoData.width,
                                           sizing.infoData.height)
           ELSE /\ SizeParam[1] = ClampWidth
                /\ SizeParam[2] = DivFloor(ClampWidth, sizing.infoData.width,
                                           sizing.infoData.height)

\* the recomputed dimension against the exact aspect ratio: the floor of the
\* exact value, or one less
C21_WithinOneOfExact ==
    sizing # Null /\ sizing.returned # Null =>
        \/ /\ SizeParam[2] = ClampHeight
           /\ SizeParam[1] * sizing.infoData.height <= ClampHeight * sizing.infoData.width
           /\ (SizeParam[1] + 2) * sizing.infoData.height > ClampHeight * sizing.infoData.width
        \/ /\ SizeParam[1] = ClampWidth
           /\ SizeParam[2] * sizing.infoData.width <= ClampWidth * sizing.infoData.height
           /\ (SizeParam[2] + 2) * sizing.infoData.width > ClampWidth * sizing.infoData.height

\* a native size of 9 by 7 asked for whole comes to 9 by 6: as doubles,
\* 9 / (9 / 7) is below 7
C21_ReachedRoundedDown ==
    /\ sizing # Null
    /\ sizing.infoData.width = 9 /\ sizing.infoData.height = 7
    /\ sizing.maxWidth = 9 /\ sizing.maxHeight = 7
    /\ sizing.returned # Null
    /\ SizeParam = <<9, 6>>

\* a native size of 8 by 4 under maxima of 6 by 2: the width is recomputed to 4
C21_Witness ==
    /\ sizing # Null
    /\ sizing.infoData.width = 8 /\ sizing.infoData.height = 4
    /\ sizing.maxWidth = 6 /\ sizing.maxHeight = 2
    /\ sizing.returned # Null
    /\ SizeParam = <<4, 2>>

\* a target of width 0: a native size of 1 by 2 under a maximum height of 1
C21_ReachedZeroWidth ==
    /\ sizing # Null
    /\ sizing.returned # Null
    /\ SizeParam[1] = 0

\* resolve was given no manifest and no annotation page, and its canvas
\* materialized to an object with a target and an items list
PageWithTargetGiven ==
    /\ args.manifest = NoRef
    /\ args.annotationPage = NoRef
    /\ canvasData # Null
    /\ Has(canvasData, "target")
    /\ Has(canvasData, "items")

\* the dispatch of fetchPageViewerData is behind
Dispatched == pc \in {"target", "probe", "lines", "resolved", "rejected"}

\* C22: a canvas object with a target and an items list, given without a
\* manifest, has its target dereferenced, whatever its items are: the fetch
\* after the materialization is that of the target, and a result carries one
\* annotation for every item whose fetch succeeded
C22_PageShapeDereferenced ==
    PageWithTargetGiven /\ Dispatched =>
        /\ Paged
        /\ pc = "resolved" => Len(result.annotations) <= Len(canvasData.items)

\* what does hold: the target is dereferenced when the first item carries a
\* target of its own that is not empty, and only then
C22_DereferencedOnFirstItemTarget ==
    PageWithTargetGiven /\ Dispatched => (Paged <=> IsPageShape(canvasData))

\* an object with a target and an empty items list was taken for the canvas
\* itself and rejected
C22_ReachedEmptyItemsRejected ==
    /\ PageWithTargetGiven
    /\ canvasData.items = <<>>
    /\ pc = "rejected"
    /\ error = "Missing required image data in IIIF canvas"
    /\ ~Paged

\* the tests of a service description: the type tag under either key, an
\* Image API namespace in @context, or width, height and @id together
PassesServiceTest(d) ==
    \/ Has(d, "type") /\ d.type = "ImageService3"
    \/ Has(d, "@type") /\ d["@type"] = "ImageService3"
    \/ Has(d, "@context") /\ d["@context"] \in {ImageApi2, ImageApi3}
    \/ Has(d, "width") /\ Has(d, "height") /\ Has(d, "@id")

\* the probe was answered with a success status, and the answer either is
\* not declared as JSON or is JSON that passes no service test
NotAService(r) ==
    /\ r.kind = "http"
    /\ r.ok
    /\ \/ r.ctype \notin JsonTypes
       \/ r.parses /\ ~PassesServiceTest(r.data)

\* C23: when the probe succeeds and its answer is not JSON, or is JSON that
\* passes none of the service tests, the image URL of the result is the
\* image identifier of the canvas, unchanged
C23_NonServiceKeepsIdentifier ==
    \A i \in Fetched("probe") :
        (Answered(i) /\ NotAService(replies[i])) =>
            /\ canvasInfo # Null
            /\ canvasInfo.imgUrl = ImgUrlOf(targetCanvas)
            /\ canvasInfo.imgUrl = log[i].url
            /\ pc = "resolved" => result.imgUrl = ImgUrlOf(targetCanvas)

\* the probe answered with JSON that has width, height and id but no @id,
\* type or @context, and the result keeps the identifier
C23_Witness ==
    /\ pc = "resolved"
    /\ Fetched("probe") # {}
    /\ ProbeReply = HttpOk("application/json", TRUE, Native @@ [id |-> "svc"])
    /\ result.imgUrl = ImgUrlOf(targetCanvas)

\* the probe answered with an image, and the result keeps the identifier
C23_ReachedNotJson ==
    /\ pc = "resolved"
    /\ Fetched("probe") # {}
    /\ ProbeReply = NoJson("image/jpeg")
    /\ result.imgUrl = ImgUrlOf(targetCanvas)

\* resolve has the body of the reference under which: its answer has been
\* stored, or all three are behind it
Materialized(which) ==
    \/ materialized[which] # Null
    \/ pc \in {"dispatch", "target", "probe", "lines", "resolved"}

\* C24: a reference that is a string is fetched once, by that string, and
\* the parsed body of the answer is what resolve goes on with; a reference
\* that is an object is never fetched and is itself what resolve goes on
\* with; no reference is ever fetched twice
C24_StringsFetchedOnceObjectsNever ==
    \A which \in Slots :
        /\ Cardinality(Fetched(which)) <= 1
        /\ \A i \in Fetched(which) : args[which].kind = "str" /\ log[i].url = args[which].str
        /\ Materialized(which) =>
              CASE args[which].kind = "str" ->
                     /\ Cardinality(Fetched(which)) = 1
                     /\ \A i \in Fetched(which) :
                           /\ replies[i].kind = "http" /\ replies[i].ok /\ replies[i].parses
                           /\ materialized[which] = replies[i].data
                [] args[which].kind = "obj" ->
                     /\ Fetched(which) = {}
                     /\ materialized[which] = args[which].obj
                [] OTHER -> Fetched(which) = {} /\ materialized[which] = Null

\* a resolution given a canvas URL and a manifest object: one fetch of the
\* canvas URL, none of the manifest
C24_Witness ==
    /\ pc = "resolved"
    /\ args.canvas = StrRef(CanvasUrl)
    /\ args.manifest.kind = "obj"
    /\ Cardinality(Fetched("canvas")) = 1
    /\ Fetched("manifest") = {}
    /\ materialized.manifest = args.manifest.obj
    /\ \A i \in Fetched("canvas") : materialized.canvas = replies[i].data

\* a canvas reference that is a string but no absolute URL is rejected
\* without a fetch
C24_ReachedBareIdentifier ==
    /\ pc = "rejected"
    /\ args.canvas = StrRef(BareId)
    /\ log = <<>>
    /\ error = "Invalid canvas/manifest/annotationPage/annotation format"

\* the fetches that materialize the references and the page's canvas
Materializing == Fetched("canvas") \cup Fetched("manifest") \cup Fetched("annotationPage")
                 \cup Fetched("target")

\* C25: the probe of the image service is issued only when every reference
\* supplied has its body and the target canvas is known, all earlier fetches
\* answered; a fetch of an annotation is issued only after the probe has
\* been answered
C25_ProbeAfterMaterializingBeforeLines ==
    /\ \A p \in Fetched("probe") :
          /\ \A which \in Slots : args[which] # NoRef => materialized[which] # Null
          /\ targetCanvas # Null
          /\ \A i \in Materializing : i < p /\ Answered(i)
    /\ \A l \in Fetched("line") :
          \E p \in Fetched("probe") : p < l /\ Answered(p)
    /\ Cardinality(Fetched("probe")) <= 1

\* a page with two annotations resolved: target, probe, and after the
\* probe's answer the two annotations
C25_Witness ==
    /\ pc = "resolved"
    /\ Cardinality(Fetched("line")) = 2
    /\ \E t \in Fetched("target"), p \in Fetched("probe") :
          t < p /\ \A l \in Fetched("line") : p < l

\* a manifest and an annotation page both fetched before the probe
C25_ReachedThreeBeforeProbe ==
    /\ pc = "resolved"
    /\ Len(log) = 4
    /\ log[1].kind = "canvas" /\ log[2].kind = "manifest"
    /\ log[3].kind = "annotationPage" /\ log[4].kind = "probe"

\* the annotations the answers stand for, in the order of the items list
InItemsOrder ==
    FilterNonNull([i \in 1..Len(canvasData.items) |-> LineOf(replies[LineIndex(i)])])

\* C29: the fetches of the annotations of a page are issued in one step, one
\* for each item and in the order of the items; nothing is returned while
\* one of them is unanswered; what is returned lists the annotations in the
\* order of the items
C29_IssuedTogetherReturnedInItemsOrder ==
    Fetched("line") # {} =>
        /\ Len(lines) = Len(canvasData.items)
        /\ Fetched("line") = {LineIndex(i) : i \in 1..Len(lines)}
        /\ \A i \in 1..Len(lines) : log[LineIndex(i)].url = canvasData.items[i].id
        /\ (\E i \in Fetched("line") : ~Answered(i)) => pc = "lines" /\ result = Null
        /\ pc = "resolved" => result.annotations = InItemsOrder

\* the second annotation's fetch has completed while the first is awaited
C29_Witness ==
    /\ pc = "lines"
    /\ Len(lines) = 2
    /\ ~Answered(LineIndex(1))
    /\ Answered(LineIndex(2))
    /\ LineOf(replies[LineIndex(2)]) # Null

\* two different annotations returned in the order of their items
C29_ReachedTwoInOrder ==
    /\ pc = "resolved"
    /\ Len(lines) = 2
    /\ Len(result.annotations) = 2
    /\ result.annotations[1] # result.annotations[2]
    /\ result.annotations[1] = LineOf(replies[LineIndex(1)])

\* the overlay boxes of the document that are marked selected
Selected == {i \in 1..Len(container.boxes) : container.boxes[i].clicked}
\* every overlay box of the document was rendered by the same load
OneLoadsBoxes ==
    \A i, j \in 1..Len(container.boxes) : container.boxes[i].load = container.boxes[j].load

\* C26: whatever clicks, SELECT_ANNOTATION messages and page loads there
\* were, overlapping loads included, at most one overlay box is marked
\* selected
C26_AtMostOneSelected == Cardinality(Selected) <= 1

\* at most one box is marked selected while the boxes of the document are
\* those of one load
C26_AtMostOneSelectedOfOneLoad == OneLoadsBoxes => Cardinality(Selected) <= 1

\* the box that was selected and produced the message posted last
Producer(i) ==
    /\ posted # <<>>
    /\ container.boxes[i].clicked
    /\ posted[Len(posted)].lineIndex = container.boxes[i].lineid
    /\ posted[Len(posted)].lineid = container.boxes[i].lineserverid

\* the step is handleMessage on SELECT_ANNOTATION with lineId k
Selecting(k) ==
    /\ container' = [container EXCEPT !.boxes = selectByPosition(k)]
    /\ UNCHANGED <<loads, posted, location, hist>>

\* C27: when the parent sends back as lineId the lineIndex of the
\* RETURN_LINE_ID message a box produced, that box is the one selected
C27_IndexRoundTrips ==
    [][\A i \in 1..Len(container.boxes) :
          Producer(i) /\ Selecting(posted[Len(posted)].lineIndex)
              => container'.boxes[i].clicked /\ Selected' = {i}]_vars

\* the round trip selects the same box when no annotation before it was
\* skipped, so that its index is its position among the boxes
C27_IndexRoundTripsWithoutSkips ==
    [][\A i \in 1..Len(container.boxes) :
          /\ Producer(i)
          /\ Selecting(posted[Len(posted)].lineIndex)
          /\ OneLoadsBoxes
          /\ container.boxes[i].lineid = i - 1
          => container'.boxes[i].clicked /\ Selected' = {i}]_vars

\* a box of a list whose first annotation has no target was selected, and
\* the message that carries its lineIndex back has left no box selected
C27_ReachedSelectionLost ==
    /\ posted # <<>>
    /\ posted[Len(posted)].lineIndex = 1
    /\ Len(container.boxes) = 1
    /\ container.boxes[1].lineid = 1
    /\ Selected = {}

\* load l ends in its catch though its resolution succeeded and its image
\* loaded
FailsAfterImage(l) ==
    /\ loads[l].pc = "image"
    /\ loads'[l].pc = "failed"
    /\ container'.text # "Failed to load image"

\* C28: a load whose resolution succeeded and whose image loaded ends with
\* the page displayed and not in the error message, whatever annotationId
\* and whatever annotation list
C28_LoadedPageNeverFails == [][\A l \in Loads : ~FailsAfterImage(l)]_vars

\* the box loadPage is going to mark exists: the one annotationId names, or
\* the one of the first annotation when annotationId is null
BoxToMarkExists(l) ==
    LET data == loads[l].data
        wanted == IF loads[l].annotationId # Null THEN loads[l].annotationId.id ELSE 0
    IN \/ loads[l].annotationId = Null /\ Len(data.annotations) = 0
       \/ /\ ~ParseThrows(data.annotations)
          /\ QueryLineId(renderAnnotations(container.boxes, l, data), wanted) # 0

\* the load ends with the page displayed exactly when the box to be marked
\* exists
C28_FailsOnlyWithoutBox ==
    [][\A l \in Loads :
          loads[l].pc = "image" /\ loads'[l].pc \in {"done", "failed"}
          /\ (loads'[l].pc = "failed" => container'.text # "Failed to load image")
              => (loads'[l].pc = "done" <=> BoxToMarkExists(l))]_vars

\* a load with annotationId null of a page whose only box is that of its
\* second annotation has ended in the error message
C28_ReachedFirstWithoutTarget ==
    \E l \in Loads :
        /\ loads[l].pc = "failed"
        /\ hist # Null /\ hist.load = l /\ hist.annotationId = Null
        /\ Len(hist.data.annotations) = 2
        /\ ~TargetTruthy(hist.data.annotations[1].target)
        /\ container = showError("Cannot read properties of null")

\* load l is under way: it awaits fetchPageData or its image
UnderWay(l) == loads[l].pc \in {"fetching", "image"}
Ended(l) == loads[l].pc \in {"done", "failed"}
ShowsPage == container.msg = "" /\ container.img # NoImage
ShowsError == container.msg = "error" /\ container.img = NoImage

\* C30: when every fetch and every image load responds, every loadPage call
\* that got past the page id test ends, and the container then shows no
\* loading message but either the image of a page or the error message
C30_EveryLoadEnds ==
    \A l \in Loads :
        UnderWay(l) ~> /\ Ended(l)
                       /\ container.msg # "loading"
                       /\ ShowsPage # ShowsError

\* a load has ended with its page displayed, another in the error message
C30_Witness ==
    \E l, k \in Loads :
        /\ loads[l].pc = "failed"
        /\ loads[k].pc = "done"
        /\ ShowsPage
        /\ container.img.load = k
        /\ hist # Null

\* a load awaits its image while the container shows the loading message
\* of a later load
C30_ReachedLoadingOverImage ==
    /\ loads[1].pc = "image"
    /\ loads[2].pc = "fetching"
    /\ container = showLoading

============================================================================
